---- MODULE Spec2Model ----
(***************************************************************************)
(* Frame pipelining and deferred resource release of the Vulkan renderer.  *)
(*                                                                         *)
(* Two specifications share this module:                                   *)
(*   Spec    the engine: init(), run(), draw(), cleanup() executed by the  *)
(*           single control thread, against a GPU that completes           *)
(*           submitted batches at its own pace;                            *)
(*   SpecDQ  one DeletionQueue driven by arbitrary push_function / flush   *)
(*           calls.                                                        *)
(*                                                                         *)
(* The engine is driven the way its public interface is meant to be used:  *)
(* init(), then run(), then cleanup().  A failed VK_CHECK ends the process *)
(* (pc = "aborted").  The closures of the deletion queues are opaque: a    *)
(* call of one is recorded by its name.                                    *)
(***************************************************************************)
EXTENDS Integers, Sequences, FiniteSets, TLC

\* constexpr unsigned int FRAME_OVERLAP = 2;
FRAME_OVERLAP == 2

\* Number of frames the engine model draws before it stops drawing.
MaxFrames == 5
\* Number of images of the swapchain (minImageCount + 1 of the surface).
NumImages == 3
\* Number of push_function calls made on the stand-alone DeletionQueue.
MaxPush == 4
\* The largest maxSets a stand-alone descriptor pool is created with.
MaxSets == 3
\* The most descriptors of the pool's type one set layout asks for.
MaxNeed == 2
\* The largest ratio of a pool, in halves (4: ratio 2.0).
MaxHalves == 4
\* The most entries of the ratio table initPool() is given.
MaxRatios == 2
\* The most allocate() calls made on the stand-alone allocator.
MaxAllocateCalls == 6
\* The most calls made on the stand-alone pipeline builder.
MaxBuilderCalls == 4
\* The most calls of one init() whose failure the code does not check.
MaxDroppedFailures == 1
\* The most transitionImage calls made on the stand-alone command buffer.
MaxTransitions == 2

Slots == 0 .. (FRAME_OVERLAP - 1)
Images == 0 .. (NumImages - 1)
\* The closures pushed on the stand-alone queue: opaque, told apart by name.
Deletors == {"A", "B", "C"}

VARIABLES
    pc,                   \* position of the control thread
    m_frameNumber,        \* VulkanEngine::m_frameNumber
    m_isInitialized,      \* VulkanEngine::m_isInitialized
    m_stopRendering,      \* VulkanEngine::m_stopRendering
    bQuit,                \* local of run()
    renderFence,          \* m_frames[i].renderFence: "null", "signaled", "unsignaled", "destroyed"
    frameDeletors,        \* m_frames[i].deletionQueue.deletors
    mainDeletors,         \* m_mainDeletionQueue.deletors
    swapChainImageIndex,  \* local of draw()
    frameIt,              \* cleanup(): index of the frame the loop over m_frames is at
    pending,              \* batches submitted to the graphics queue and not yet completed
    released,             \* what the flushes of m_mainDeletionQueue have executed, in order
    trace,                \* the calls made by the current draw() / cleanup(), in order
    slotLog,              \* the slot of every vkQueueSubmit2 made so far, in order
    fenceResets,          \* per slot, the number of successful vkResetFences on its renderFence
    presents,             \* presentation engine: the queued present requests not yet executed, oldest first
    blockedWaits,         \* the frames whose draw() called vkWaitForFences on an unsignaled fence
    initCalls,            \* the device calls made by init() until run() is entered, with their results
    drawsAfterQuit,       \* the draw() calls run() has made since a quit event was polled
    skipped,              \* run() has gone through the m_stopRendering branch at least once
    deletors,             \* stand-alone DeletionQueue::deletors
    executed,             \* every closure call made by the stand-alone queue, in order
    pushed,               \* every closure pushed on the stand-alone queue, in order
    flushedUpTo,          \* Len(pushed) at the latest flush of the stand-alone queue
    lastFlush,            \* the closure calls made by the latest flush, in order
    daPc,                 \* stand-alone DescriptorAllocator: "new", "ready", "aborted", "destroyed"
    pool,                 \* DescriptorAllocator::pool: what vkCreateDescriptorPool was asked for
    poolSets,             \* driver: sets allocated from the pool and not yet reset
    poolDescriptors,      \* driver: descriptors of the pool's type taken by those sets
    liveSets,             \* the set handles returned by allocate() that are still valid
    nextSet,              \* the number of set handles returned so far
    sinceReset,           \* the allocate() calls since initPool or the last clearDescriptors
    beforeReset,          \* the sets that were allocated when clearDescriptors was last called
    daCalls,              \* the number of allocate() calls made
    pbPc,                 \* stand-alone PipelineBuilder: "new", "ready", "aborted"
    pbBuilder,            \* the fields of the PipelineBuilder
    pbBuilds,             \* the vkCreateGraphicsPipelines calls made by buildPipeline(), in order
    pbOp,                 \* the latest member function called on the builder
    pbCalls,              \* the number of calls made on the builder
    tiCmd,                \* stand-alone command buffer: the commands recorded on it, in order
    tiArgs,               \* the arguments of every transitionImage call on it, in order
    scPc,                 \* stand-alone VulkanSwapChain: "new", "ready", "cleaned", "aborted"
    m_swapChain,          \* VulkanSwapChain::m_swapChain (0 is VK_NULL_HANDLE)
    m_imageViews,         \* VulkanSwapChain::m_imageViews
    scHandles,            \* the number of swapchain handles the device has created
    scDestroyed,          \* the swapchain handles the device has destroyed
    scCalls,              \* the swapchain calls made on the device, in order
    dlPc,                 \* stand-alone DescriptorLayoutBuilder: "ready", "aborted"
    bindings,             \* DescriptorLayoutBuilder::bindings
    dlLayouts,            \* the vkCreateDescriptorSetLayout calls made by build(), in order
    dlCalls,              \* the number of calls made on the DescriptorLayoutBuilder
    fcPc,                 \* stand-alone frame counter: "new", "counting", "trapped"
    fcFrameNumber,        \* a 32-bit signed m_frameNumber
    fcSlots               \* the slot index of every frame drawn since, in order

engineVars == <<pc, m_frameNumber, m_isInitialized, m_stopRendering, bQuit,
                renderFence, frameDeletors, mainDeletors, swapChainImageIndex,
                frameIt, pending, released, trace, slotLog, presents, fenceResets, blockedWaits,
                initCalls, skipped, drawsAfterQuit>>
dqVars == <<deletors, executed, pushed, flushedUpTo, lastFlush>>
daVars == <<daPc, pool, poolSets, poolDescriptors, liveSets, nextSet, sinceReset,
            beforeReset, daCalls>>
pbVars == <<pbPc, pbBuilder, pbBuilds, pbOp, pbCalls>>
tiVars == <<tiCmd, tiArgs>>
scVars == <<scPc, m_swapChain, m_imageViews, scHandles, scDestroyed, scCalls>>
dlVars == <<dlPc, bindings, dlLayouts, dlCalls>>
fcVars == <<fcPc, fcFrameNumber, fcSlots>>
vars == <<engineVars, dqVars, daVars, pbVars, tiVars, scVars, dlVars, fcVars>>

----------------------------------------------------------------------------
(* VK_CHECK: any non-zero VkResult aborts the process.                     *)

ApiResults == {"VK_SUCCESS", "VK_ERROR_DEVICE_LOST"}
AcquireResults == {"VK_SUCCESS", "VK_TIMEOUT", "VK_SUBOPTIMAL_KHR",
                   "VK_ERROR_OUT_OF_DATE_KHR"}
PresentResults == {"VK_SUCCESS", "VK_SUBOPTIMAL_KHR", "VK_ERROR_OUT_OF_DATE_KHR"}

VK_CHECK(error) == error = "VK_SUCCESS"

----------------------------------------------------------------------------
(* DeletionQueue                                                           *)

push_function_front(q, function) == <<function>> \o q

\* deletors.push_back(function)
push_function(q, function) == Append(q, function)

RECURSIVE CallFrom(_, _, _)
\* The calls (*it)() made while the index runs from i down to stop + 1.
CallFrom(q, i, stop) ==
    IF i <= stop THEN <<>> ELSE <<q[i]>> \o CallFrom(q, i - 1, stop)

flush_calls_forward(q) == q

flush_calls_skip_first(q) == CallFrom(q, Len(q), 1)

\* for (it = deletors.rbegin(); it != deletors.rend(); ++it) (*it)();
flush_calls(q) == CallFrom(q, Len(q), 0)

flush_keep(q) == q

\* deletors.clear()
flush_clear(q) == <<>>

----------------------------------------------------------------------------
(* The engine                                                              *)

getCurrentFrame_shifted == (m_frameNumber + 1) % FRAME_OVERLAP

\* getCurrentFrame(): m_frames[m_frameNumber % FRAME_OVERLAP]
getCurrentFrame == m_frameNumber % FRAME_OVERLAP

\* Number of batches submitted with slot s that the GPU has not completed.
InFlight(s) == Cardinality({b \in pending : b.slot = s})

\* One call of the control thread, with what held when it was made.
Call(op, s, res) ==
    [op |-> op, slot |-> s, res |-> res,
     fence |-> renderFence[s], inFlight |-> InFlight(s),
     frame |-> m_frameNumber]

\* m_frames[s].swapChainSemaphore
swapChainSemaphore(s) == <<s, "swapChainSemaphore">>
\* m_frames[s].renderSemaphore
renderSemaphore(s) == <<s, "renderSemaphore">>

Abort == pc' = "aborted"

Init ==
    /\ pc = "initSwapChain"
    /\ m_frameNumber = 0
    /\ m_isInitialized = FALSE
    /\ m_stopRendering = FALSE
    /\ bQuit = FALSE
    /\ renderFence = [s \in Slots |-> "null"]
    /\ frameDeletors = [s \in Slots |-> <<>>]
    /\ mainDeletors = <<>>
    /\ swapChainImageIndex = 0
    /\ frameIt = 0
    /\ pending = {}
    /\ released = <<>>
    /\ trace = <<>>
    /\ slotLog = <<>>
    /\ presents = <<>>
    /\ fenceResets = [s \in Slots |-> 0]
    /\ blockedWaits = {}
    /\ initCalls = <<>>
    /\ skipped = FALSE
    /\ drawsAfterQuit = 0
    /\ deletors = <<>>
    /\ executed = <<>>
    /\ pushed = <<>>
    /\ flushedUpTo = 0
    /\ lastFlush = <<>>
    /\ daPc = "new"
    /\ pool = [valid |-> FALSE, maxSets |-> 0, descriptorCount |-> 0,
               poolSizes |-> <<>>, args |-> [maxSets |-> 0, poolRatios |-> <<>>]]
    /\ poolSets = 0
    /\ poolDescriptors = 0
    /\ liveSets = {}
    /\ nextSet = 0
    /\ sinceReset = <<>>
    /\ beforeReset = -1
    /\ daCalls = 0
    /\ pbPc = "new"
    /\ pbBuilder = <<>>
    /\ pbBuilds = <<>>
    /\ pbOp = "none"
    /\ pbCalls = 0
    /\ tiCmd = <<>>
    /\ tiArgs = <<>>
    /\ scPc = "new"
    /\ m_swapChain = 0
    /\ m_imageViews = <<>>
    /\ scHandles = 0
    /\ scDestroyed = {}
    /\ scCalls = <<>>
    /\ dlPc = "ready"
    /\ bindings = <<>>
    /\ dlLayouts = <<>>
    /\ dlCalls = 0
    /\ fcPc = "new"
    /\ fcFrameNumber = 0
    /\ fcSlots = <<>>

\* What init() leaves alone in every step.
InitFrame ==
    UNCHANGED <<m_frameNumber, m_stopRendering, bQuit, frameDeletors,
                swapChainImageIndex, frameIt, pending, released, trace, slotLog, presents, fenceResets,
                blockedWaits, skipped, drawsAfterQuit, dqVars, daVars, pbVars, tiVars, scVars, dlVars, fcVars>>

\* A device call of init(): VK_CHECK'ed (checked) or with its result dropped.
Checked(name) == [kind |-> "call", name |-> name, checked |-> TRUE]
Unchecked(name) == [kind |-> "call", name |-> name, checked |-> FALSE]
Load_fatal(name) == [kind |-> "load", name |-> name, checked |-> TRUE]

\* if (!VkUtils::loadShaderModule(...)) { std::cerr << ... }: the failure is
\* logged and not checked any further.
Load(name) == [kind |-> "load", name |-> name, checked |-> FALSE]
\* m_mainDeletionQueue.push_function(...)
Push(name) == [kind |-> "push", name |-> name]

\* VkUtils::loadShaderModule: false when the file does not open (not a device
\* result, folded into the failing ones) or vkCreateShaderModule fails.
loadShaderModule(vkCreateShaderModule) ==
    IF vkCreateShaderModule = "VK_SUCCESS" THEN "true" ELSE "false"

RECURSIVE Exec(_, _, _, _)
\* Runs the statements from the i-th on: a call is logged with its result and
\* a failed checked call ends the run (abort()), a push goes on the queue.
Exec(steps, results, i, st) ==
    IF i > Len(steps) \/ ~st.ok THEN st
    ELSE IF steps[i].kind = "push"
    THEN Exec(steps, results, i + 1,
              [st EXCEPT !.queue = push_function(@, steps[i].name)])
    ELSE IF steps[i].kind = "load"
    THEN Exec(steps, results, i + 1,
              [st EXCEPT !.log = Append(@, [call |-> steps[i].name,
                                            res |-> loadShaderModule(results[i])]),
                         !.ok = ~steps[i].checked
                                   \/ loadShaderModule(results[i]) = "true"])
    ELSE Exec(steps, results, i + 1,
              [st EXCEPT !.log = Append(@, [call |-> steps[i].name,
                                            res |-> results[i]]),
                         !.ok = ~steps[i].checked \/ VK_CHECK(results[i])])

\* The failed calls of a log that init() went on after.
DroppedFailures(log) ==
    Cardinality({i \in 1 .. Len(log) : log[i].res \notin {"VK_SUCCESS", "true"}})

\* One function of init(): its statements run with the results the device gives.
InitFunction(here, steps, next) ==
    /\ pc = here
    /\ \E results \in [1 .. Len(steps) -> ApiResults] :
          LET st == Exec(steps, results, 1,
                         [log |-> initCalls, queue |-> mainDeletors, ok |-> TRUE])
          IN  /\ st.ok => DroppedFailures(st.log) <= MaxDroppedFailures
              /\ ~st.ok => DroppedFailures(st.log) <= MaxDroppedFailures + 1
              /\ initCalls' = st.log
              /\ mainDeletors' = st.queue
              /\ pc' = IF st.ok THEN next ELSE "aborted"
    /\ InitFrame

initSwapChain_allocatorPushedLast ==
    <<Checked("vkCreateSwapchainKHR"),
      Checked("vkCreateImageView(swapchain)"),
      Unchecked("vmaCreateAllocator"),
      Unchecked("vmaCreateImage"),
      Checked("vkCreateImageView(drawImage)"),
      Push("destroyDrawImage"),
      Push("vmaDestroyAllocator")>>

\* initSwapChain(): swapchain, allocator, draw image and its view.
initSwapChain ==
    <<Checked("vkCreateSwapchainKHR"),
      Checked("vkCreateImageView(swapchain)"),
      Unchecked("vmaCreateAllocator"),
      Push("vmaDestroyAllocator"),
      Unchecked("vmaCreateImage"),
      Checked("vkCreateImageView(drawImage)"),
      Push("destroyDrawImage")>>

InitSwapChain ==
    /\ InitFunction("initSwapChain", initSwapChain, "initCommands")
    /\ UNCHANGED <<m_isInitialized, renderFence>>

\* initCommands(): per-frame command pools and buffers, the immediate pool.
initCommands ==
    <<Checked("vkCreateCommandPool(frames)"),
      Checked("vkAllocateCommandBuffers(frames)"),
      Checked("vkCreateCommandPool(immediate)"),
      Checked("vkAllocateCommandBuffers(immediate)"),
      Push("destroyImmediateCommandPool")>>

InitCommands ==
    /\ InitFunction("initCommands", initCommands, "initSyncStructures")
    /\ UNCHANGED <<m_isInitialized, renderFence>>

fenceInfo_flags_none == "0"

\* fenceInfo.flags = VK_FENCE_CREATE_SIGNALED_BIT
fenceInfo_flags == "VK_FENCE_CREATE_SIGNALED_BIT"

\* The state a fence is created in.
vkCreateFence(flags) ==
    IF flags = "VK_FENCE_CREATE_SIGNALED_BIT" THEN "signaled" ELSE "unsignaled"

\* initSyncStructures(): one fence and two semaphores per frame, the immediate fence.
initSyncStructures ==
    <<Checked("vkCreateFence(frames)"),
      Checked("vkCreateSemaphore(frames)"),
      Checked("vkCreateFence(immediate)"),
      Push("destroyImmediateFence")>>

InitSyncStructures ==
    /\ InitFunction("initSyncStructures", initSyncStructures, "initDescriptors")
    /\ renderFence' =
          IF pc' = "aborted" THEN renderFence
          ELSE [s \in Slots |-> vkCreateFence(fenceInfo_flags)]
    /\ UNCHANGED m_isInitialized

\* initDescriptors(): the global pool, the draw-image layout and set.
initDescriptors ==
    <<Unchecked("vkCreateDescriptorPool"),
      Checked("vkCreateDescriptorSetLayout"),
      Checked("vkAllocateDescriptorSets"),
      Push("destroyDescriptorPool")>>

InitDescriptors ==
    /\ InitFunction("initDescriptors", initDescriptors, "initBackgroundPipelines")
    /\ UNCHANGED <<m_isInitialized, renderFence>>

\* initBackgroundPipelines(): the compute layout and the two compute pipelines.
initBackgroundPipelines ==
    <<Checked("vkCreatePipelineLayout(compute)"),
      Load("loadShaderModule(gradient)"),
      Load("loadShaderModule(sky)"),
      Checked("vkCreateComputePipelines(gradient)"),
      Checked("vkCreateComputePipelines(sky)"),
      Push("destroyBackgroundPipelines")>>

InitBackgroundPipelines ==
    /\ InitFunction("initBackgroundPipelines", initBackgroundPipelines,
                    "initTrianglePipeline")
    /\ UNCHANGED <<m_isInitialized, renderFence>>

\* initTrianglePipeline(): the triangle layout and graphics pipeline.
initTrianglePipeline ==
    <<Load("loadShaderModule(triangleFrag)"),
      Load("loadShaderModule(triangleVertex)"),
      Checked("vkCreatePipelineLayout(triangle)"),
      Checked("vkCreateGraphicsPipelines"),
      Push("destroyTrianglePipeline")>>

InitTrianglePipeline ==
    /\ InitFunction("initTrianglePipeline", initTrianglePipeline, "initImGui")
    /\ UNCHANGED <<m_isInitialized, renderFence>>

\* initImGui(), then init() sets m_isInitialized and the caller enters run().
initImGui ==
    <<Checked("vkCreateDescriptorPool(imgui)"),
      Push("shutdownImGui")>>

InitImGui ==
    /\ InitFunction("initImGui", initImGui, "run_top")
    /\ m_isInitialized' = (pc' = "run_top")
    /\ UNCHANGED renderFence

----------------------------------------------------------------------------
(* run()                                                                   *)

Events == {"SDL_EVENT_QUIT", "SDL_EVENT_WINDOW_MINIMIZED",
           "SDL_EVENT_WINDOW_RESTORED", "SDL_EVENT_OTHER"}

RunFrame ==
    UNCHANGED <<m_frameNumber, m_isInitialized, renderFence, frameDeletors,
                mainDeletors, swapChainImageIndex, frameIt, pending, released,
                slotLog, presents, fenceResets, dqVars, daVars, pbVars, tiVars, scVars, dlVars, fcVars>>

RunTop_ignoresQuit ==
    /\ pc = "run_top"
    /\ pc' = "run_poll"
    /\ initCalls' = <<>>
    /\ UNCHANGED <<m_stopRendering, bQuit, trace, blockedWaits, skipped, drawsAfterQuit>>
    /\ RunFrame

\* while (!bQuit): the loop condition; when run() returns the caller calls
\* cleanup(). init() has returned: the log of its calls is dropped.
RunTop ==
    /\ pc = "run_top"
    /\ pc' = IF bQuit THEN "cleanup" ELSE "run_poll"
    /\ initCalls' = <<>>
    /\ UNCHANGED <<m_stopRendering, bQuit, trace, blockedWaits, skipped, drawsAfterQuit>>
    /\ RunFrame

\* while (SDL_PollEvent(&event)): one event taken from the queue and handled.
RunPollEvent(event) ==
    /\ pc = "run_poll"
    /\ bQuit' = IF event = "SDL_EVENT_QUIT" THEN TRUE ELSE bQuit
    /\ m_stopRendering' =
          IF event = "SDL_EVENT_WINDOW_RESTORED" THEN FALSE
          ELSE IF event = "SDL_EVENT_WINDOW_MINIMIZED" THEN TRUE
          ELSE m_stopRendering
    /\ UNCHANGED <<pc, trace, blockedWaits, skipped, drawsAfterQuit>>
    /\ UNCHANGED initCalls
    /\ RunFrame

\* SDL_PollEvent returns false: the event queue is empty.
RunPollDone ==
    /\ pc = "run_poll"
    /\ pc' = "run_check"
    /\ UNCHANGED <<m_stopRendering, bQuit, trace, blockedWaits, skipped, drawsAfterQuit>>
    /\ UNCHANGED initCalls
    /\ RunFrame

RunSkipDraw_noContinue ==
    /\ pc = "run_check"
    /\ m_stopRendering
    /\ pc' = "draw_wait"
    /\ skipped' = TRUE
    /\ UNCHANGED drawsAfterQuit
    /\ UNCHANGED <<m_stopRendering, bQuit, trace, blockedWaits>>
    /\ UNCHANGED initCalls
    /\ RunFrame

\* if (m_stopRendering) { sleep_for(100ms); continue; }
RunSkipDraw ==
    /\ pc = "run_check"
    /\ m_stopRendering
    /\ pc' = "run_top"
    /\ skipped' = TRUE
    /\ UNCHANGED drawsAfterQuit
    /\ UNCHANGED <<m_stopRendering, bQuit, trace, blockedWaits>>
    /\ UNCHANGED initCalls
    /\ RunFrame

\* The ImGui frame is built and draw() is called.
RunCallDraw ==
    /\ pc = "run_check"
    /\ ~m_stopRendering
    /\ m_frameNumber < MaxFrames
    /\ pc' = "draw_wait"
    /\ trace' = <<>>
    /\ blockedWaits' =
          IF renderFence[getCurrentFrame] = "signaled"
          THEN blockedWaits
          ELSE blockedWaits \cup {m_frameNumber}
    /\ drawsAfterQuit' = IF bQuit THEN drawsAfterQuit + 1 ELSE drawsAfterQuit
    /\ UNCHANGED <<m_stopRendering, bQuit, skipped>>
    /\ UNCHANGED initCalls
    /\ RunFrame

----------------------------------------------------------------------------
(* draw()                                                                  *)

vkWaitForFences_noWait(s) == {"VK_SUCCESS", "VK_ERROR_DEVICE_LOST"}

\* vkWaitForFences(device, 1, &fence, true, 1000000000): success once the
\* fence is signaled, VK_TIMEOUT when it is not signaled within the second.
vkWaitForFences(s) ==
    (IF renderFence[s] = "signaled" THEN {"VK_SUCCESS"} ELSE {"VK_TIMEOUT"})
        \cup {"VK_ERROR_DEVICE_LOST"}

DrawFrame ==
    UNCHANGED <<m_isInitialized, m_stopRendering, bQuit, mainDeletors, frameIt,
                released, blockedWaits, skipped, drawsAfterQuit, initCalls, dqVars, daVars, pbVars, tiVars, scVars, dlVars, fcVars>>

DrawWaitFence_unchecked ==
    /\ pc = "draw_wait"
    /\ \E r \in vkWaitForFences(getCurrentFrame) :
          /\ trace' = Append(trace, Call("wait", getCurrentFrame, r))
          /\ pc' = "draw_flush"
    /\ UNCHANGED <<m_frameNumber, renderFence, frameDeletors, swapChainImageIndex,
                   pending, slotLog, presents, fenceResets>>
    /\ DrawFrame

DrawWaitFence_retry ==
    /\ pc = "draw_wait"
    /\ \E r \in vkWaitForFences(getCurrentFrame) :
          /\ trace' = Append(trace, Call("wait", getCurrentFrame, r))
          /\ pc' = IF VK_CHECK(r) THEN "draw_flush"
                   ELSE IF r = "VK_TIMEOUT" THEN "draw_wait" ELSE "aborted"
    /\ UNCHANGED <<m_frameNumber, renderFence, frameDeletors, swapChainImageIndex,
                   pending, slotLog, presents, fenceResets>>
    /\ DrawFrame

\* VK_CHECK(vkWaitForFences(..., &getCurrentFrame().renderFence, true, 1000000000))
DrawWaitFence ==
    /\ pc = "draw_wait"
    /\ \E r \in vkWaitForFences(getCurrentFrame) :
          /\ trace' = Append(trace, Call("wait", getCurrentFrame, r))
          /\ IF VK_CHECK(r) THEN pc' = "draw_flush" ELSE Abort
    /\ UNCHANGED <<m_frameNumber, renderFence, frameDeletors, swapChainImageIndex,
                   pending, slotLog, presents, fenceResets>>
    /\ DrawFrame

DrawFlush_mainQueue ==
    /\ pc = "draw_flush"
    /\ released' = released \o flush_calls(mainDeletors)
    /\ mainDeletors' = flush_clear(mainDeletors)
    /\ trace' = Append(trace, Call("flushMain", getCurrentFrame, "void"))
    /\ pc' = "draw_resetFence"
    /\ UNCHANGED <<m_frameNumber, renderFence, frameDeletors, swapChainImageIndex,
                   pending, slotLog, presents, fenceResets>>
    /\ UNCHANGED <<m_isInitialized, m_stopRendering, bQuit, frameIt, blockedWaits, skipped, drawsAfterQuit,
                   initCalls, dqVars, daVars, pbVars, tiVars, scVars, dlVars, fcVars>>

\* getCurrentFrame().deletionQueue.flush()
DrawFlush ==
    /\ pc = "draw_flush"
    /\ released' = released \o flush_calls(frameDeletors[getCurrentFrame])
    /\ frameDeletors' =
          [frameDeletors EXCEPT ![getCurrentFrame] = flush_clear(@)]
    /\ trace' = Append(trace, Call("flush", getCurrentFrame, "void"))
    /\ pc' = "draw_resetFence"
    /\ UNCHANGED <<m_frameNumber, renderFence, swapChainImageIndex, pending, slotLog, presents, fenceResets>>
    /\ UNCHANGED <<m_isInitialized, m_stopRendering, bQuit, mainDeletors, frameIt,
                   blockedWaits, skipped, drawsAfterQuit, initCalls, dqVars, daVars, pbVars, tiVars, scVars, dlVars, fcVars>>

DrawResetFence_skipped ==
    /\ pc = "draw_resetFence"
    /\ trace' = Append(trace, Call("resetFence", getCurrentFrame, "VK_SUCCESS"))
    /\ pc' = "draw_acquire"
    /\ UNCHANGED <<m_frameNumber, renderFence, frameDeletors, swapChainImageIndex,
                   pending, slotLog, presents, fenceResets>>
    /\ DrawFrame

DrawResetFence_otherSlot ==
    /\ pc = "draw_resetFence"
    /\ \E r \in ApiResults :
          /\ trace' = Append(trace, Call("resetFence", getCurrentFrame, r))
          /\ IF VK_CHECK(r)
             THEN /\ renderFence' = [renderFence EXCEPT
                                        ![(getCurrentFrame + 1) % FRAME_OVERLAP] = "unsignaled"]
                  /\ fenceResets' = [fenceResets EXCEPT
                                        ![(getCurrentFrame + 1) % FRAME_OVERLAP] = @ + 1]
                  /\ pc' = "draw_acquire"
             ELSE Abort /\ UNCHANGED <<renderFence, fenceResets>>
    /\ UNCHANGED <<m_frameNumber, frameDeletors, swapChainImageIndex, pending, slotLog, presents>>
    /\ DrawFrame

\* VK_CHECK(vkResetFences(device, 1, &getCurrentFrame().renderFence))
DrawResetFence ==
    /\ pc = "draw_resetFence"
    /\ \E r \in ApiResults :
          /\ trace' = Append(trace, Call("resetFence", getCurrentFrame, r))
          /\ IF VK_CHECK(r)
             THEN /\ renderFence' = [renderFence EXCEPT ![getCurrentFrame] = "unsignaled"]
                  /\ fenceResets' = [fenceResets EXCEPT ![getCurrentFrame] = @ + 1]
                  /\ pc' = "draw_acquire"
             ELSE Abort /\ UNCHANGED <<renderFence, fenceResets>>
    /\ UNCHANGED <<m_frameNumber, frameDeletors, swapChainImageIndex, pending, slotLog, presents>>
    /\ DrawFrame

\* The swapchain images the presentation engine can hand out: those not
\* waiting in a queued present request.
AvailableImages == Images \ {presents[k].image : k \in 1 .. Len(presents)}

DrawAcquire_unchecked ==
    /\ pc = "draw_acquire"
    /\ \E r \in AcquireResults \cup ApiResults, image \in Images :
          /\ VK_CHECK(r) => image \in AvailableImages
          /\ trace' = Append(trace,
                [signal |-> swapChainSemaphore(getCurrentFrame), image |-> image]
                    @@ Call("acquire", getCurrentFrame, r))
          /\ swapChainImageIndex' = image
          /\ pc' = "draw_resetCmd"
    /\ UNCHANGED <<m_frameNumber, renderFence, frameDeletors, pending, slotLog, presents, fenceResets>>
    /\ DrawFrame

\* VK_CHECK(vkAcquireNextImageKHR(device, swapChain, 1000000000,
\*          getCurrentFrame().swapChainSemaphore, nullptr, &swapChainImageIndex))
DrawAcquire ==
    /\ pc = "draw_acquire"
    /\ \E r \in AcquireResults \cup ApiResults, image \in Images :
          /\ VK_CHECK(r) => image \in AvailableImages
          /\ trace' = Append(trace,
                [signal |-> swapChainSemaphore(getCurrentFrame), image |-> image]
                    @@ Call("acquire", getCurrentFrame, r))
          /\ IF VK_CHECK(r)
             THEN swapChainImageIndex' = image /\ pc' = "draw_resetCmd"
             ELSE Abort /\ UNCHANGED swapChainImageIndex
    /\ UNCHANGED <<m_frameNumber, renderFence, frameDeletors, pending, slotLog, presents, fenceResets>>
    /\ DrawFrame

DrawResetCommandBuffer_returnOnQuit ==
    /\ pc = "draw_resetCmd"
    /\ \E r \in ApiResults :
          /\ trace' = Append(trace, Call("resetCmd", getCurrentFrame, r))
          /\ IF VK_CHECK(r)
             THEN pc' = IF bQuit THEN "run_top" ELSE "draw_record"
             ELSE Abort
    /\ UNCHANGED <<m_frameNumber, renderFence, frameDeletors, swapChainImageIndex,
                   pending, slotLog, presents, fenceResets>>
    /\ DrawFrame

\* VK_CHECK(vkResetCommandBuffer(getCurrentFrame().commandBuffer, 0))
DrawResetCommandBuffer ==
    /\ pc = "draw_resetCmd"
    /\ \E r \in ApiResults :
          /\ trace' = Append(trace, Call("resetCmd", getCurrentFrame, r))
          /\ IF VK_CHECK(r) THEN pc' = "draw_record" ELSE Abort
    /\ UNCHANGED <<m_frameNumber, renderFence, frameDeletors, swapChainImageIndex,
                   pending, slotLog, presents, fenceResets>>
    /\ DrawFrame

transitionImage_aspectFromCurrent(image, currentLayout, newLayout) ==
    [cmd |-> "vkCmdPipelineBarrier2",
     imageMemoryBarrierCount |-> 1,
     pImageMemoryBarriers |->
        <<[srcStageMask |-> "VK_PIPELINE_STAGE_2_ALL_COMMANDS_BIT",
           srcAccessMask |-> {"VK_ACCESS_2_MEMORY_WRITE_BIT"},
           dstStageMask |-> "VK_PIPELINE_STAGE_2_ALL_COMMANDS_BIT",
           dstAccessMask |-> {"VK_ACCESS_2_MEMORY_WRITE_BIT",
                              "VK_ACCESS_2_MEMORY_READ_BIT"},
           oldLayout |-> currentLayout,
           newLayout |-> newLayout,
           image |-> image,
           aspectMask |->
               IF currentLayout = "VK_IMAGE_LAYOUT_DEPTH_ATTACHMENT_OPTIMAL"
               THEN "VK_IMAGE_ASPECT_DEPTH_BIT"
               ELSE "VK_IMAGE_ASPECT_COLOR_BIT"]>>]

\* VkUtils::transitionImage(cmd, image, currentLayout, newLayout): the
\* command it records on cmd.
transitionImage(image, currentLayout, newLayout) ==
    [cmd |-> "vkCmdPipelineBarrier2",
     imageMemoryBarrierCount |-> 1,
     pImageMemoryBarriers |->
        <<[srcStageMask |-> "VK_PIPELINE_STAGE_2_ALL_COMMANDS_BIT",
           srcAccessMask |-> {"VK_ACCESS_2_MEMORY_WRITE_BIT"},
           dstStageMask |-> "VK_PIPELINE_STAGE_2_ALL_COMMANDS_BIT",
           dstAccessMask |-> {"VK_ACCESS_2_MEMORY_WRITE_BIT",
                              "VK_ACCESS_2_MEMORY_READ_BIT"},
           oldLayout |-> currentLayout,
           newLayout |-> newLayout,
           image |-> image,
           aspectMask |->
               IF newLayout = "VK_IMAGE_LAYOUT_DEPTH_ATTACHMENT_OPTIMAL"
               THEN "VK_IMAGE_ASPECT_DEPTH_BIT"
               ELSE "VK_IMAGE_ASPECT_COLOR_BIT"]>>]

\* A recorded command that reads or writes the image in the layout it names.
ImageUse(cmd, image, layout) == [cmd |-> cmd, image |-> image, layout |-> layout]

\* m_drawImage.image
DrawImage == <<"m_drawImage", 0>>

\* drawBackground(cmd): the dispatch writes the draw image through the
\* descriptor initDescriptors() wrote with imageLayout GENERAL.
drawBackground == ImageUse("vkCmdDispatch", DrawImage, "VK_IMAGE_LAYOUT_GENERAL")

\* drawGeometry(cmd): rendering with the draw image as colour attachment.
drawGeometry ==
    ImageUse("vkCmdDraw", DrawImage, "VK_IMAGE_LAYOUT_COLOR_ATTACHMENT_OPTIMAL")

\* VkUtils::copyImageToImage(cmd, source, destination, ...): the copy reads
\* the source and writes the destination in the transfer layouts.
copyImageToImage(source, destination) ==
    <<ImageUse("vkCmdBlitImage2", source, "VK_IMAGE_LAYOUT_TRANSFER_SRC_OPTIMAL"),
      ImageUse("vkCmdBlitImage2", destination, "VK_IMAGE_LAYOUT_TRANSFER_DST_OPTIMAL")>>

\* drawImGui(cmd, view): rendering with the swapchain image as colour attachment.
drawImGui(image) ==
    ImageUse("ImGui_ImplVulkan_RenderDrawData", image,
             "VK_IMAGE_LAYOUT_COLOR_ATTACHMENT_OPTIMAL")

\* m_swapChain->getImages()[i]
SwapChainImage(i) == <<"swapChainImage", i>>

recordedCommands_drawImageStaysGeneral(i) ==
    <<transitionImage(DrawImage, "VK_IMAGE_LAYOUT_UNDEFINED",
                      "VK_IMAGE_LAYOUT_GENERAL"),
      drawBackground,
      drawGeometry,
      transitionImage(DrawImage, "VK_IMAGE_LAYOUT_COLOR_ATTACHMENT_OPTIMAL",
                      "VK_IMAGE_LAYOUT_TRANSFER_SRC_OPTIMAL"),
      transitionImage(SwapChainImage(i), "VK_IMAGE_LAYOUT_UNDEFINED",
                      "VK_IMAGE_LAYOUT_TRANSFER_DST_OPTIMAL")>>
    \o copyImageToImage(DrawImage, SwapChainImage(i))
    \o <<transitionImage(SwapChainImage(i), "VK_IMAGE_LAYOUT_TRANSFER_DST_OPTIMAL",
                         "VK_IMAGE_LAYOUT_COLOR_ATTACHMENT_OPTIMAL"),
         drawImGui(SwapChainImage(i)),
         transitionImage(SwapChainImage(i), "VK_IMAGE_LAYOUT_COLOR_ATTACHMENT_OPTIMAL",
                         "VK_IMAGE_LAYOUT_PRESENT_SRC_KHR")>>

\* The commands draw() records between vkBeginCommandBuffer and
\* vkEndCommandBuffer that touch an image, for swapchain image i.
recordedCommands(i) ==
    <<transitionImage(DrawImage, "VK_IMAGE_LAYOUT_UNDEFINED",
                      "VK_IMAGE_LAYOUT_GENERAL"),
      drawBackground,
      transitionImage(DrawImage, "VK_IMAGE_LAYOUT_GENERAL",
                      "VK_IMAGE_LAYOUT_COLOR_ATTACHMENT_OPTIMAL"),
      drawGeometry,
      transitionImage(DrawImage, "VK_IMAGE_LAYOUT_COLOR_ATTACHMENT_OPTIMAL",
                      "VK_IMAGE_LAYOUT_TRANSFER_SRC_OPTIMAL"),
      transitionImage(SwapChainImage(i), "VK_IMAGE_LAYOUT_UNDEFINED",
                      "VK_IMAGE_LAYOUT_TRANSFER_DST_OPTIMAL")>>
    \o copyImageToImage(DrawImage, SwapChainImage(i))
    \o <<transitionImage(SwapChainImage(i), "VK_IMAGE_LAYOUT_TRANSFER_DST_OPTIMAL",
                         "VK_IMAGE_LAYOUT_COLOR_ATTACHMENT_OPTIMAL"),
         drawImGui(SwapChainImage(i)),
         transitionImage(SwapChainImage(i), "VK_IMAGE_LAYOUT_COLOR_ATTACHMENT_OPTIMAL",
                         "VK_IMAGE_LAYOUT_PRESENT_SRC_KHR")>>

\* vkBeginCommandBuffer, the transitions and draws, vkEndCommandBuffer.
DrawRecord ==
    /\ pc = "draw_record"
    /\ \E r \in ApiResults :
          /\ trace' = Append(trace,
                [commands |-> IF VK_CHECK(r)
                              THEN recordedCommands(swapChainImageIndex) ELSE <<>>]
                    @@ Call("record", getCurrentFrame, r))
          /\ IF VK_CHECK(r) THEN pc' = "draw_submit" ELSE Abort
    /\ UNCHANGED <<m_frameNumber, renderFence, frameDeletors, swapChainImageIndex,
                   pending, slotLog, presents, fenceResets>>
    /\ DrawFrame

\* The batch handed to the graphics queue with frame s's semaphores and fence.
Batch(s) == [frame |-> m_frameNumber, slot |-> s, image |-> swapChainImageIndex]

DrawSubmit_nextSlot ==
    /\ pc = "draw_submit"
    /\ \E r \in ApiResults :
          /\ trace' = Append(trace,
                [wait |-> swapChainSemaphore((getCurrentFrame + 1) % FRAME_OVERLAP),
                 signal |-> renderSemaphore((getCurrentFrame + 1) % FRAME_OVERLAP)]
                    @@ Call("submit", (getCurrentFrame + 1) % FRAME_OVERLAP, r))
          /\ IF VK_CHECK(r)
             THEN /\ pending' = pending \cup {Batch((getCurrentFrame + 1) % FRAME_OVERLAP)}
                  /\ slotLog' = Append(slotLog, (getCurrentFrame + 1) % FRAME_OVERLAP)
                  /\ pc' = "draw_present"
             ELSE Abort /\ UNCHANGED <<pending, slotLog>>
    /\ UNCHANGED <<m_frameNumber, renderFence, frameDeletors, swapChainImageIndex, presents, fenceResets>>
    /\ DrawFrame

DrawSubmit_noFence ==
    /\ pc = "draw_submit"
    /\ \E r \in ApiResults :
          /\ trace' = Append(trace,
                [wait |-> swapChainSemaphore(getCurrentFrame),
                 signal |-> renderSemaphore(getCurrentFrame)]
                    @@ Call("submit", getCurrentFrame, r))
          /\ IF VK_CHECK(r)
             THEN /\ slotLog' = Append(slotLog, getCurrentFrame)
                  /\ pc' = "draw_present"
             ELSE Abort /\ UNCHANGED slotLog
    /\ UNCHANGED <<m_frameNumber, renderFence, frameDeletors, swapChainImageIndex, presents,
                   fenceResets, pending>>
    /\ DrawFrame

\* VK_CHECK(vkQueueSubmit2(graphicsQueue, 1, &submit, getCurrentFrame().renderFence))
DrawSubmit ==
    /\ pc = "draw_submit"
    /\ \E r \in ApiResults :
          /\ trace' = Append(trace,
                [wait |-> swapChainSemaphore(getCurrentFrame),
                 signal |-> renderSemaphore(getCurrentFrame)]
                    @@ Call("submit", getCurrentFrame, r))
          /\ IF VK_CHECK(r)
             THEN /\ pending' = pending \cup {Batch(getCurrentFrame)}
                  /\ slotLog' = Append(slotLog, getCurrentFrame)
                  /\ pc' = "draw_present"
             ELSE Abort /\ UNCHANGED <<pending, slotLog>>
    /\ UNCHANGED <<m_frameNumber, renderFence, frameDeletors, swapChainImageIndex, presents, fenceResets>>
    /\ DrawFrame

\* A present request queued by vkQueuePresentKHR: it waits on the slot's
\* renderSemaphore and then hands the image to the display.
PresentRequest(s) == [frame |-> m_frameNumber, slot |-> s, image |-> swapChainImageIndex]

DrawPresent_waitsOnAcquireSemaphore ==
    /\ pc = "draw_present"
    /\ \E r \in PresentResults \cup ApiResults :
          /\ trace' = Append(trace,
                [wait |-> swapChainSemaphore(getCurrentFrame),
                 image |-> swapChainImageIndex]
                    @@ Call("present", getCurrentFrame, r))
          /\ IF VK_CHECK(r) THEN pc' = "draw_increment" ELSE Abort
          /\ presents' = IF VK_CHECK(r)
                         THEN Append(presents, PresentRequest(getCurrentFrame))
                         ELSE presents
    /\ UNCHANGED <<m_frameNumber, renderFence, frameDeletors, swapChainImageIndex,
                   pending, slotLog, fenceResets>>
    /\ DrawFrame

\* VK_CHECK(vkQueuePresentKHR(graphicsQueue, &presentInfo))
DrawPresent ==
    /\ pc = "draw_present"
    /\ \E r \in PresentResults \cup ApiResults :
          /\ trace' = Append(trace,
                [wait |-> renderSemaphore(getCurrentFrame),
                 image |-> swapChainImageIndex]
                    @@ Call("present", getCurrentFrame, r))
          /\ IF VK_CHECK(r) THEN pc' = "draw_increment" ELSE Abort
          /\ presents' = IF VK_CHECK(r)
                         THEN Append(presents, PresentRequest(getCurrentFrame))
                         ELSE presents
    /\ UNCHANGED <<m_frameNumber, renderFence, frameDeletors, swapChainImageIndex,
                   pending, slotLog, fenceResets>>
    /\ DrawFrame

DrawIncrement_twice ==
    /\ pc = "draw_increment"
    /\ trace' = Append(trace, Call("increment", getCurrentFrame, "void"))
    /\ m_frameNumber' = m_frameNumber + 2
    /\ pc' = "run_top"
    /\ UNCHANGED <<renderFence, frameDeletors, swapChainImageIndex, pending, slotLog, presents, fenceResets>>
    /\ DrawFrame

\* m_frameNumber++, and draw() returns into the loop of run().
DrawIncrement ==
    /\ pc = "draw_increment"
    /\ trace' = Append(trace, Call("increment", getCurrentFrame, "void"))
    /\ m_frameNumber' = m_frameNumber + 1
    /\ pc' = "run_top"
    /\ UNCHANGED <<renderFence, frameDeletors, swapChainImageIndex, pending, slotLog, presents, fenceResets>>
    /\ DrawFrame

----------------------------------------------------------------------------
(* The GPU                                                                 *)

\* The graphics queue completes a submitted batch: the fence the batch was
\* submitted with becomes signaled. The signal operations of one queue happen
\* in submission order, so the oldest pending batch is the one to complete.
GpuComplete(b) ==
    /\ pc \notin {"aborted", "exited"}
    /\ b \in pending
    /\ \A c \in pending : c.frame >= b.frame
    /\ pending' = pending \ {b}
    /\ renderFence' =
          [renderFence EXCEPT ![b.slot] = IF @ = "destroyed" THEN @ ELSE "signaled"]
    /\ UNCHANGED <<pc, m_frameNumber, m_isInitialized, m_stopRendering, bQuit,
                   frameDeletors, mainDeletors, swapChainImageIndex, frameIt,
                   released, trace, slotLog, presents, fenceResets, blockedWaits, skipped, drawsAfterQuit, initCalls, dqVars, daVars, pbVars, tiVars, scVars, dlVars, fcVars>>

\* The presentation engine executes the oldest queued present request: its
\* wait on the renderSemaphore is satisfied once the batch that signals the
\* semaphore has completed, and the image goes to the display.
PresentExecute ==
    /\ pc \notin {"aborted", "exited"}
    /\ presents # <<>>
    /\ \A b \in pending : b.frame # Head(presents).frame
    /\ presents' = Tail(presents)
    /\ UNCHANGED <<pc, m_frameNumber, m_isInitialized, m_stopRendering, bQuit,
                   renderFence, frameDeletors, mainDeletors, swapChainImageIndex,
                   frameIt, pending, released, trace, slotLog, fenceResets,
                   blockedWaits, skipped, drawsAfterQuit, initCalls, dqVars, daVars, pbVars, tiVars, scVars, dlVars, fcVars>>

----------------------------------------------------------------------------
(* cleanup()                                                               *)

\* A call on the whole device, with what held when it was made.
DeviceCall(op, res) ==
    [op |-> op, slot |-> FRAME_OVERLAP, res |-> res,
     fence |-> "none", inFlight |-> Cardinality(pending),
     frame |-> m_frameNumber]

CleanupFrame ==
    UNCHANGED <<m_frameNumber, m_isInitialized, m_stopRendering, bQuit,
                swapChainImageIndex, pending, slotLog, presents, fenceResets, blockedWaits, skipped, drawsAfterQuit, initCalls,
                dqVars, daVars, pbVars, tiVars, scVars, dlVars, fcVars>>

CleanupEnter_flushFirst ==
    /\ pc = "cleanup"
    /\ pc' = IF m_isInitialized THEN "cleanup_waitIdle" ELSE "exited"
    /\ trace' = <<>>
    /\ released' = released \o flush_calls(mainDeletors)
    /\ mainDeletors' = flush_clear(mainDeletors)
    /\ UNCHANGED <<renderFence, frameDeletors, frameIt>>
    /\ CleanupFrame

\* if (m_isInitialized) { ... }
CleanupEnter ==
    /\ pc = "cleanup"
    /\ pc' = IF m_isInitialized THEN "cleanup_waitIdle" ELSE "exited"
    /\ trace' = <<>>
    /\ UNCHANGED <<renderFence, frameDeletors, mainDeletors, frameIt, released>>
    /\ CleanupFrame

CleanupWaitIdle_missing ==
    /\ pc = "cleanup_waitIdle"
    /\ trace' = Append(trace, DeviceCall("waitIdle", "void"))
    /\ frameIt' = 0
    /\ pc' = "cleanup_frames"
    /\ UNCHANGED <<renderFence, frameDeletors, mainDeletors, released>>
    /\ CleanupFrame

\* vkDeviceWaitIdle(device): returns once every queue of the device is idle.
CleanupWaitIdle ==
    /\ pc = "cleanup_waitIdle"
    /\ pending = {}
    /\ trace' = Append(trace, DeviceCall("waitIdle", "VK_SUCCESS"))
    /\ frameIt' = 0
    /\ pc' = "cleanup_frames"
    /\ UNCHANGED <<renderFence, frameDeletors, mainDeletors, released>>
    /\ CleanupFrame

\* for (auto& frame : m_frames): the pool, fence and semaphores of one frame
\* are destroyed and its deletion queue is flushed.
CleanupOneFrame ==
    /\ pc = "cleanup_frames"
    /\ frameIt < FRAME_OVERLAP
    /\ renderFence' = [renderFence EXCEPT ![frameIt] = "destroyed"]
    /\ released' = released \o flush_calls(frameDeletors[frameIt])
    /\ frameDeletors' = [frameDeletors EXCEPT ![frameIt] = flush_clear(@)]
    /\ trace' = trace \o <<Call("destroyFrame", frameIt, "void"),
                           Call("flush", frameIt, "void")>>
    /\ frameIt' = frameIt + 1
    /\ UNCHANGED <<pc, mainDeletors>>
    /\ CleanupFrame

\* m_mainDeletionQueue.flush()
CleanupFlushMain ==
    /\ pc = "cleanup_frames"
    /\ frameIt = FRAME_OVERLAP
    /\ released' = released \o flush_calls(mainDeletors)
    /\ mainDeletors' = flush_clear(mainDeletors)
    /\ trace' = Append(trace, DeviceCall("flushMain", "void"))
    /\ pc' = "cleanup_device"
    /\ UNCHANGED <<renderFence, frameDeletors, frameIt>>
    /\ CleanupFrame

\* m_swapChain->cleanup(); m_ctx->cleanup(); SDL_DestroyWindow; SDL_Quit.
CleanupDevice ==
    /\ pc = "cleanup_device"
    /\ trace' = trace \o <<DeviceCall("destroySwapChain", "void"),
                           DeviceCall("destroyContext", "void")>>
    /\ pc' = "exited"
    /\ UNCHANGED <<renderFence, frameDeletors, mainDeletors, frameIt, released>>
    /\ CleanupFrame

----------------------------------------------------------------------------
(* The engine's specification                                              *)

Next ==
    \/ InitSwapChain
    \/ InitCommands
    \/ InitSyncStructures
    \/ InitDescriptors
    \/ InitBackgroundPipelines
    \/ InitTrianglePipeline
    \/ InitImGui
    \/ RunTop
    \/ \E event \in Events : RunPollEvent(event)
    \/ RunPollDone
    \/ RunSkipDraw
    \/ RunCallDraw
    \/ DrawWaitFence
    \/ DrawFlush
    \/ DrawResetFence
    \/ DrawAcquire
    \/ DrawResetCommandBuffer
    \/ DrawRecord
    \/ DrawSubmit
    \/ DrawPresent
    \/ DrawIncrement
    \/ \E b \in pending : GpuComplete(b)
    \/ PresentExecute
    \/ CleanupEnter
    \/ CleanupWaitIdle
    \/ CleanupOneFrame
    \/ CleanupFlushMain
    \/ CleanupDevice

Spec == Init /\ [][Next]_vars

\* The engine while no call fails: every VK_CHECK passes, so a wait or an
\* acquisition that cannot succeed yet blocks instead of timing out.
NoFailure == pc' # "aborted"

NextLive ==
    \/ InitSwapChain /\ NoFailure
    \/ InitCommands /\ NoFailure
    \/ InitSyncStructures /\ NoFailure
    \/ InitDescriptors /\ NoFailure
    \/ InitBackgroundPipelines /\ NoFailure
    \/ InitTrianglePipeline /\ NoFailure
    \/ InitImGui /\ NoFailure
    \/ RunTop
    \/ \E event \in Events : RunPollEvent(event)
    \/ RunPollDone
    \/ RunSkipDraw
    \/ RunCallDraw
    \/ DrawWaitFence /\ NoFailure
    \/ DrawFlush
    \/ DrawResetFence /\ NoFailure
    \/ DrawAcquire /\ NoFailure
    \/ DrawResetCommandBuffer /\ NoFailure
    \/ DrawRecord /\ NoFailure
    \/ DrawSubmit /\ NoFailure
    \/ DrawPresent /\ NoFailure
    \/ DrawIncrement
    \/ \E b \in pending : GpuComplete(b)
    \/ PresentExecute
    \/ CleanupEnter
    \/ CleanupWaitIdle
    \/ CleanupOneFrame
    \/ CleanupFlushMain
    \/ CleanupDevice

\* Whatever can run does run in the end: the control thread, the GPU (it
\* completes every batch) and the presentation engine (it executes every
\* present). The batches and presents are finite in number while the control
\* thread is blocked, so weak fairness of the whole step is enough for them;
\* the event queue is finite, so SDL_PollEvent returns false in the end.
SpecLive == Init /\ [][NextLive]_vars /\ WF_vars(NextLive) /\ WF_vars(RunPollDone)

\* cleanup() is a public method: the owner of the engine may call it before
\* init() was ever called, and again after a cleanup() that has returned.
CallCleanup ==
    /\ \/ pc = "initSwapChain" /\ initCalls = <<>> /\ ~m_isInitialized
       \/ pc = "exited"
    /\ pc' = "cleanup"
    /\ UNCHANGED <<renderFence, frameDeletors, mainDeletors, frameIt, released,
                   trace>>
    /\ CleanupFrame

NextCleanupCalls ==
    \/ Next
    \/ CallCleanup

\* The engine under an owner that calls cleanup() any number of times.
SpecCleanupCalls == Init /\ [][NextCleanupCalls]_vars

----------------------------------------------------------------------------
(* One DeletionQueue under arbitrary calls                                 *)

\* push_function(f): the n-th closure pushed is told apart by n.
DQPush(f) ==
    /\ Len(pushed) < MaxPush
    /\ deletors' = push_function(deletors, [n |-> Len(pushed) + 1, fn |-> f])
    /\ pushed' = Append(pushed, [n |-> Len(pushed) + 1, fn |-> f])
    /\ UNCHANGED <<executed, flushedUpTo, lastFlush, engineVars, daVars, pbVars, tiVars, scVars, dlVars, fcVars>>

\* flush()
DQFlush ==
    /\ lastFlush' = flush_calls(deletors)
    /\ executed' = executed \o flush_calls(deletors)
    /\ deletors' = flush_clear(deletors)
    /\ flushedUpTo' = Len(pushed)
    /\ UNCHANGED <<pushed, engineVars, daVars, pbVars, tiVars, scVars, dlVars, fcVars>>

NextDQ ==
    \/ \E f \in Deletors : DQPush(f)
    \/ DQFlush

SpecDQ == Init /\ [][NextDQ]_vars

----------------------------------------------------------------------------
(* One DescriptorAllocator under arbitrary calls                           *)

\* static_cast<uint32_t>(ratio * maxSets), the ratio given in halves: the
\* product is truncated towards zero.
descriptorCount(halves, maxSets) == (halves * maxSets) \div 2

\* The descriptor types a ratio table names; set layouts ask for the first.
DescriptorTypes == {"VK_DESCRIPTOR_TYPE_STORAGE_IMAGE", "VK_DESCRIPTOR_TYPE_UNIFORM_BUFFER"}

\* The ratio tables initPool() is given: {type, ratio} entries, the ratio in halves.
PoolRatios ==
    UNION {[1 .. n -> [type : DescriptorTypes, halves : 0 .. MaxHalves]] :
              n \in 1 .. MaxRatios}

poolSizes_reversed(poolRatios, maxSets) ==
    [i \in 1 .. Len(poolRatios) |->
        [type |-> poolRatios[Len(poolRatios) + 1 - i].type,
         descriptorCount |->
             descriptorCount(poolRatios[Len(poolRatios) + 1 - i].halves, maxSets)]]

\* for (auto [type, ratio] : poolRatios) poolSizes.push_back({type, ratio * maxSets})
poolSizes(poolRatios, maxSets) ==
    [i \in 1 .. Len(poolRatios) |->
        [type |-> poolRatios[i].type,
         descriptorCount |-> descriptorCount(poolRatios[i].halves, maxSets)]]

\* The driver: the descriptors of a type a pool holds are the sum of the
\* descriptorCount of its size entries of that type.
RECURSIVE TypeCount(_, _)
TypeCount(sizes, type) ==
    IF sizes = <<>> THEN 0
    ELSE (IF sizes[1].type = type THEN sizes[1].descriptorCount ELSE 0)
             + TypeCount(Tail(sizes), type)

\* initPool(device, maxSets, poolRatios). The result of
\* vkCreateDescriptorPool is dropped: when the call fails the pool handle is
\* not a pool.
initPool(maxSets, poolRatios, r) ==
    /\ daPc = "new"
    /\ pool' = [valid |-> VK_CHECK(r), maxSets |-> maxSets,
                descriptorCount |->
                    TypeCount(poolSizes(poolRatios, maxSets),
                              "VK_DESCRIPTOR_TYPE_STORAGE_IMAGE"),
                poolSizes |-> poolSizes(poolRatios, maxSets),
                args |-> [maxSets |-> maxSets, poolRatios |-> poolRatios]]
    /\ daPc' = "ready"
    /\ UNCHANGED <<poolSets, poolDescriptors, liveSets, nextSet, sinceReset,
                   beforeReset, daCalls, engineVars, dqVars, pbVars, tiVars, scVars, dlVars, fcVars>>

\* initPool() with a table of one entry, as initDescriptors() calls it.
DAInitPool(maxSets, halves, r) ==
    initPool(maxSets,
             <<[type |-> "VK_DESCRIPTOR_TYPE_STORAGE_IMAGE", halves |-> halves]>>, r)

\* initPool() with any ratio table.
IPInitPool(maxSets, poolRatios, r) == initPool(maxSets, poolRatios, r)

\* The driver's vkAllocateDescriptorSets for count sets that take need
\* descriptors each. Within maxSets and the descriptor counts the allocation
\* succeeds (memory exhaustion and fragmentation are left out). Beyond them
\* the Vulkan specification says the allocation "may fail due to lack of
\* space in the descriptor pool": drivers may report
\* VK_ERROR_OUT_OF_POOL_MEMORY or hand out the sets. On a handle that is not
\* a pool the behaviour is undefined.
vkAllocateDescriptorSets(count, need) ==
    IF /\ pool.valid
       /\ poolSets + count <= pool.maxSets
       /\ poolDescriptors + count * need <= pool.descriptorCount
    THEN {"VK_SUCCESS"}
    ELSE {"VK_SUCCESS", "VK_ERROR_OUT_OF_POOL_MEMORY"}

\* An allocate() call as the log keeps it.
AllocateCall(count, need, r) ==
    [res |-> r, count |-> count, need |-> need, setsBefore |-> poolSets,
     maxSets |-> pool.maxSets]

DAAllocate_twoSets(need) ==
    /\ daPc = "ready"
    /\ daCalls < MaxAllocateCalls
    /\ daCalls' = daCalls + 1
    /\ \E r \in vkAllocateDescriptorSets(2, need) :
          /\ sinceReset' = Append(sinceReset, AllocateCall(2, need, r))
          /\ IF VK_CHECK(r)
             THEN /\ poolSets' = poolSets + 2
                  /\ poolDescriptors' = poolDescriptors + 2 * need
                  /\ nextSet' = nextSet + 1
                  /\ liveSets' = liveSets \cup {nextSet + 1}
                  /\ UNCHANGED daPc
             ELSE /\ daPc' = "aborted"
                  /\ UNCHANGED <<poolSets, poolDescriptors, nextSet, liveSets>>
    /\ UNCHANGED <<pool, beforeReset, engineVars, dqVars, pbVars, tiVars, scVars, dlVars, fcVars>>

\* allocate(device, layout): descriptorSetCount = 1, the layout asking for
\* need descriptors; VK_CHECK(vkAllocateDescriptorSets(...)).
DAAllocate(need) ==
    /\ daPc = "ready"
    /\ daCalls < MaxAllocateCalls
    /\ daCalls' = daCalls + 1
    /\ \E r \in vkAllocateDescriptorSets(1, need) :
          /\ sinceReset' = Append(sinceReset, AllocateCall(1, need, r))
          /\ IF VK_CHECK(r)
             THEN /\ poolSets' = poolSets + 1
                  /\ poolDescriptors' = poolDescriptors + need
                  /\ nextSet' = nextSet + 1
                  /\ liveSets' = liveSets \cup {nextSet + 1}
                  /\ UNCHANGED daPc
             ELSE /\ daPc' = "aborted"
                  /\ UNCHANGED <<poolSets, poolDescriptors, nextSet, liveSets>>
    /\ UNCHANGED <<pool, beforeReset, engineVars, dqVars, pbVars, tiVars, scVars, dlVars, fcVars>>

DAClearDescriptors_noReset ==
    /\ daPc = "ready"
    /\ liveSets' = {}
    /\ sinceReset' = <<>>
    /\ beforeReset' = poolSets
    /\ UNCHANGED <<daPc, pool, poolSets, poolDescriptors, nextSet, daCalls,
                   engineVars, dqVars, pbVars, tiVars, scVars, dlVars, fcVars>>

\* clearDescriptors(device): vkResetDescriptorPool returns every set of the
\* pool to the pool; the handles handed out become invalid.
DAClearDescriptors ==
    /\ daPc = "ready"
    /\ poolSets' = 0
    /\ poolDescriptors' = 0
    /\ liveSets' = {}
    /\ sinceReset' = <<>>
    /\ beforeReset' = poolSets
    /\ UNCHANGED <<daPc, pool, nextSet, daCalls, engineVars, dqVars, pbVars, tiVars, scVars, dlVars, fcVars>>

\* destroyPool(device): vkDestroyDescriptorPool frees the pool and its sets.
DADestroyPool ==
    /\ daPc = "ready"
    /\ daPc' = "destroyed"
    /\ poolSets' = 0
    /\ poolDescriptors' = 0
    /\ liveSets' = {}
    /\ UNCHANGED <<pool, nextSet, sinceReset, beforeReset, daCalls, engineVars,
                   dqVars, pbVars, tiVars, scVars, dlVars, fcVars>>

NextDA ==
    \/ \E maxSets \in 1 .. MaxSets, halves \in 0 .. MaxHalves, r \in ApiResults :
          DAInitPool(maxSets, halves, r)
    \/ \E need \in 1 .. MaxNeed : DAAllocate(need)
    \/ DAClearDescriptors
    \/ DADestroyPool

SpecDA == Init /\ [][NextDA]_vars

\* initPool() on any ratio table, followed by the calls that take no set layout.
NextIP ==
    \/ \E maxSets \in 1 .. MaxSets, poolRatios \in PoolRatios, r \in ApiResults :
          IPInitPool(maxSets, poolRatios, r)
    \/ DAClearDescriptors
    \/ DADestroyPool

SpecIP == Init /\ [][NextIP]_vars

----------------------------------------------------------------------------
(* One PipelineBuilder under arbitrary calls                               *)

\* The values the setters are called with.
ShaderModules == {"vertModule", "fragModule"}
Topologies == {"VK_PRIMITIVE_TOPOLOGY_TRIANGLE_LIST", "VK_PRIMITIVE_TOPOLOGY_LINE_LIST"}
PolygonModes == {"VK_POLYGON_MODE_FILL", "VK_POLYGON_MODE_LINE"}
CullModes == {"VK_CULL_MODE_NONE", "VK_CULL_MODE_BACK_BIT"}
FrontFaces == {"VK_FRONT_FACE_CLOCKWISE"}
Formats == {"VK_FORMAT_R16G16B16A16_SFLOAT", "VK_FORMAT_D32_SFLOAT"}
PipelineLayouts == {"trianglePipelineLayout"}

\* The value of each struct after "= {.sType = ...}" or "= {}": every other
\* member zero.
ZeroInputAssembly ==
    [topology |-> "VK_PRIMITIVE_TOPOLOGY_POINT_LIST",
     primitiveRestartEnable |-> "VK_FALSE"]
ZeroRasterizer ==
    [polygonMode |-> "VK_POLYGON_MODE_FILL", lineWidth |-> "0.f",
     cullMode |-> "VK_CULL_MODE_NONE",
     frontFace |-> "VK_FRONT_FACE_COUNTER_CLOCKWISE"]
ZeroColorBlendAttachment ==
    [colorWriteMask |-> {}, blendEnable |-> "VK_FALSE"]
ZeroMultisampling ==
    [sampleShadingEnable |-> "VK_FALSE", rasterizationSamples |-> "0",
     minSampleShading |-> "0.f", pSampleMask |-> "nullptr",
     alphaToCoverageEnable |-> "VK_FALSE", alphaToOneEnable |-> "VK_FALSE"]
ZeroDepthStencil ==
    [depthTestEnable |-> "VK_FALSE", depthWriteEnable |-> "VK_FALSE",
     depthCompareOp |-> "VK_COMPARE_OP_NEVER",
     depthBoundsTestEnable |-> "VK_FALSE", stencilTestEnable |-> "VK_FALSE",
     front |-> "{}", back |-> "{}",
     minDepthBounds |-> "0.f", maxDepthBounds |-> "0.f"]
ZeroRenderInfo ==
    [colorAttachmentCount |-> 0, pColorAttachmentFormats |-> "nullptr",
     depthAttachmentFormat |-> "VK_FORMAT_UNDEFINED"]

\* What m_colorBlendAttachment may hold before anything is assigned to it.
IndeterminateColorBlendAttachments ==
    {ZeroColorBlendAttachment,
     [colorWriteMask |-> {"R", "A"}, blendEnable |-> "VK_TRUE"]}

\* PipelineBuilder::clear(): m_colorBlendAttachment is not assigned.
clear(b) ==
    [b EXCEPT !.m_inputAssembly = ZeroInputAssembly,
              !.m_rasterizer = ZeroRasterizer,
              !.m_colorAttachmentFormat = "VK_FORMAT_UNDEFINED",
              !.m_multisampling = ZeroMultisampling,
              !.m_pipelineLayout = "VK_NULL_HANDLE",
              !.m_depthStencil = ZeroDepthStencil,
              !.m_renderInfo = ZeroRenderInfo,
              !.m_shaderStages = <<>>]

\* PipelineBuilder(ctx) : m_ctx(ctx) { clear(); } on members that are not
\* initialized otherwise.
Constructed(blend) ==
    clear([m_shaderStages |-> <<>>,
           m_inputAssembly |-> ZeroInputAssembly,
           m_rasterizer |-> ZeroRasterizer,
           m_colorBlendAttachment |-> blend,
           m_multisampling |-> ZeroMultisampling,
           m_pipelineLayout |-> "VK_NULL_HANDLE",
           m_depthStencil |-> ZeroDepthStencil,
           m_renderInfo |-> ZeroRenderInfo,
           m_colorAttachmentFormat |-> "VK_FORMAT_UNDEFINED"])

setShaders(b, vertexShader, fragmentShader) ==
    [b EXCEPT !.m_shaderStages =
        <<[stage |-> "VK_SHADER_STAGE_VERTEX_BIT", module |-> vertexShader,
           pName |-> "main"],
          [stage |-> "VK_SHADER_STAGE_FRAGMENT_BIT", module |-> fragmentShader,
           pName |-> "main"]>>]

setInputTopology(b, topology) ==
    [b EXCEPT !.m_inputAssembly.topology = topology,
              !.m_inputAssembly.primitiveRestartEnable = "VK_FALSE"]

setPolygonMode(b, mode) ==
    [b EXCEPT !.m_rasterizer.polygonMode = mode,
              !.m_rasterizer.lineWidth = "1.f"]

setCullMode(b, cullMode, frontFace) ==
    [b EXCEPT !.m_rasterizer.cullMode = cullMode,
              !.m_rasterizer.frontFace = frontFace]

setMultiSamplingNone(b) ==
    [b EXCEPT !.m_multisampling =
        [sampleShadingEnable |-> "VK_FALSE",
         rasterizationSamples |-> "VK_SAMPLE_COUNT_1_BIT",
         minSampleShading |-> "1.0f", pSampleMask |-> "nullptr",
         alphaToCoverageEnable |-> "VK_FALSE", alphaToOneEnable |-> "VK_FALSE"]]

disableBlending(b) ==
    [b EXCEPT !.m_colorBlendAttachment.colorWriteMask = {"R", "G", "B", "A"},
              !.m_colorBlendAttachment.blendEnable = "VK_FALSE"]

setColorAttachmentFormat(b, format) ==
    [b EXCEPT !.m_colorAttachmentFormat = format,
              !.m_renderInfo.colorAttachmentCount = 1,
              !.m_renderInfo.pColorAttachmentFormats = "&m_colorAttachmentFormat"]

setDepthFormat(b, format) ==
    [b EXCEPT !.m_renderInfo.depthAttachmentFormat = format]

disableDepthTest_compareAlways(b) ==
    [b EXCEPT !.m_depthStencil =
        [depthTestEnable |-> "VK_FALSE", depthWriteEnable |-> "VK_FALSE",
         depthCompareOp |-> "VK_COMPARE_OP_ALWAYS",
         depthBoundsTestEnable |-> "VK_FALSE", stencilTestEnable |-> "VK_FALSE",
         front |-> "{}", back |-> "{}",
         minDepthBounds |-> "0.f", maxDepthBounds |-> "1.f"]]

disableDepthTest(b) ==
    [b EXCEPT !.m_depthStencil =
        [depthTestEnable |-> "VK_FALSE", depthWriteEnable |-> "VK_FALSE",
         depthCompareOp |-> "VK_COMPARE_OP_NEVER",
         depthBoundsTestEnable |-> "VK_FALSE", stencilTestEnable |-> "VK_FALSE",
         front |-> "{}", back |-> "{}",
         minDepthBounds |-> "0.f", maxDepthBounds |-> "1.f"]]

\* The VkGraphicsPipelineCreateInfo buildPipeline() hands to the device,
\* with what its pointers point at.
pipelineInfo(b) ==
    [pNext |->
        [colorAttachmentCount |-> b.m_renderInfo.colorAttachmentCount,
         pColorAttachmentFormats |->
             IF b.m_renderInfo.pColorAttachmentFormats = "&m_colorAttachmentFormat"
             THEN <<b.m_colorAttachmentFormat>> ELSE <<>>,
         depthAttachmentFormat |-> b.m_renderInfo.depthAttachmentFormat],
     stageCount |-> Len(b.m_shaderStages),
     pStages |-> b.m_shaderStages,
     pVertexInputState |-> "{}",
     pInputAssemblyState |-> b.m_inputAssembly,
     pViewportState |-> [viewportCount |-> 1, scissorCount |-> 1],
     pRasterizationState |-> b.m_rasterizer,
     pMultisampleState |-> b.m_multisampling,
     pColorBlendState |->
        [logicOpEnable |-> "VK_FALSE", logicOp |-> "VK_LOGIC_OP_COPY",
         attachmentCount |-> 1, pAttachments |-> <<b.m_colorBlendAttachment>>],
     pDepthStencilState |-> b.m_depthStencil,
     layout |-> b.m_pipelineLayout,
     pDynamicState |-> <<"VK_DYNAMIC_STATE_VIEWPORT", "VK_DYNAMIC_STATE_SCISSOR">>]

\* The pipelines the device has created for the builder so far.
CreatedPipelines ==
    Cardinality({i \in 1 .. Len(pbBuilds) : pbBuilds[i].res = "VK_SUCCESS"})

\* The constructor runs: the builder exists.
PBConstruct(blend) ==
    /\ pbPc = "new"
    /\ pbPc' = "ready"
    /\ pbBuilder' = Constructed(blend)
    /\ pbOp' = "PipelineBuilder"
    /\ UNCHANGED <<pbBuilds, pbCalls, engineVars, dqVars, daVars, tiVars, scVars, dlVars, fcVars>>

\* A call of a member function that returns nothing: b is the builder after it.
PBCall(op, b) ==
    /\ pbPc = "ready"
    /\ pbCalls < MaxBuilderCalls
    /\ pbCalls' = pbCalls + 1
    /\ pbOp' = op
    /\ pbBuilder' = b
    /\ UNCHANGED <<pbPc, pbBuilds, engineVars, dqVars, daVars, tiVars, scVars, dlVars, fcVars>>

PBClear == PBCall("clear", clear(pbBuilder))
PBSetShaders(vertexShader, fragmentShader) ==
    PBCall("setShaders", setShaders(pbBuilder, vertexShader, fragmentShader))
PBSetInputTopology(topology) ==
    PBCall("setInputTopology", setInputTopology(pbBuilder, topology))
PBSetPolygonMode(mode) ==
    PBCall("setPolygonMode", setPolygonMode(pbBuilder, mode))
PBSetCullMode(cullMode, frontFace) ==
    PBCall("setCullMode", setCullMode(pbBuilder, cullMode, frontFace))
PBSetMultiSamplingNone ==
    PBCall("setMultiSamplingNone", setMultiSamplingNone(pbBuilder))
PBDisableBlending ==
    PBCall("disableBlending", disableBlending(pbBuilder))
PBDisableDepthTest ==
    PBCall("disableDepthTest", disableDepthTest(pbBuilder))
PBSetColorAttachmentFormat(format) ==
    PBCall("setColorAttachmentFormat", setColorAttachmentFormat(pbBuilder, format))
PBSetDepthFormat(format) ==
    PBCall("setDepthFormat", setDepthFormat(pbBuilder, format))

\* pipelineBuilder.m_pipelineLayout = layout: the caller assigns the public member.
PBAssignPipelineLayout(layout) ==
    PBCall("m_pipelineLayout", [pbBuilder EXCEPT !.m_pipelineLayout = layout])

PBBuildPipeline_consumesShaders(r) ==
    /\ pbPc = "ready"
    /\ pbCalls < MaxBuilderCalls
    /\ pbCalls' = pbCalls + 1
    /\ pbOp' = "buildPipeline"
    /\ pbBuilds' = Append(pbBuilds,
          [pipelineInfo |-> pipelineInfo(pbBuilder), res |-> r,
           newPipeline |-> IF VK_CHECK(r) THEN CreatedPipelines + 1 ELSE 0,
           call |-> pbCalls + 1, builder |-> pbBuilder])
    /\ pbPc' = IF VK_CHECK(r) THEN "ready" ELSE "aborted"
    /\ pbBuilder' = [pbBuilder EXCEPT !.m_shaderStages = <<>>]
    /\ UNCHANGED <<engineVars, dqVars, daVars, tiVars, scVars, dlVars, fcVars>>

\* buildPipeline(device): VK_CHECK(vkCreateGraphicsPipelines(device,
\* VK_NULL_HANDLE, 1, &pipelineInfo, nullptr, &newPipeline)); return newPipeline.
PBBuildPipeline(r) ==
    /\ pbPc = "ready"
    /\ pbCalls < MaxBuilderCalls
    /\ pbCalls' = pbCalls + 1
    /\ pbOp' = "buildPipeline"
    /\ pbBuilds' = Append(pbBuilds,
          [pipelineInfo |-> pipelineInfo(pbBuilder), res |-> r,
           newPipeline |-> IF VK_CHECK(r) THEN CreatedPipelines + 1 ELSE 0,
           call |-> pbCalls + 1, builder |-> pbBuilder])
    /\ pbPc' = IF VK_CHECK(r) THEN "ready" ELSE "aborted"
    /\ UNCHANGED <<pbBuilder, engineVars, dqVars, daVars, tiVars, scVars, dlVars, fcVars>>

NextPB ==
    \/ \E blend \in IndeterminateColorBlendAttachments : PBConstruct(blend)
    \/ PBClear
    \/ \E v \in ShaderModules, f \in ShaderModules : PBSetShaders(v, f)
    \/ \E topology \in Topologies : PBSetInputTopology(topology)
    \/ \E mode \in PolygonModes : PBSetPolygonMode(mode)
    \/ \E cullMode \in CullModes, frontFace \in FrontFaces :
          PBSetCullMode(cullMode, frontFace)
    \/ PBSetMultiSamplingNone
    \/ PBDisableBlending
    \/ PBDisableDepthTest
    \/ \E format \in Formats : PBSetColorAttachmentFormat(format)
    \/ \E format \in Formats : PBSetDepthFormat(format)
    \/ \E layout \in PipelineLayouts : PBAssignPipelineLayout(layout)
    \/ \E r \in ApiResults : PBBuildPipeline(r)

SpecPB == Init /\ [][NextPB]_vars

-----------------------------------------------------------------------------
(* VkUtils::transitionImage on a command buffer of its own                 *)

VkImages == {DrawImage, SwapChainImage(0)}

ImageLayouts == {"VK_IMAGE_LAYOUT_UNDEFINED", "VK_IMAGE_LAYOUT_GENERAL",
                 "VK_IMAGE_LAYOUT_COLOR_ATTACHMENT_OPTIMAL",
                 "VK_IMAGE_LAYOUT_DEPTH_ATTACHMENT_OPTIMAL",
                 "VK_IMAGE_LAYOUT_PRESENT_SRC_KHR"}

\* VkUtils::transitionImage(cmd, image, currentLayout, newLayout)
TITransitionImage(image, currentLayout, newLayout) ==
    /\ Len(tiArgs) < MaxTransitions
    /\ tiArgs' = Append(tiArgs, [image |-> image, currentLayout |-> currentLayout,
                                 newLayout |-> newLayout])
    /\ tiCmd' = Append(tiCmd, transitionImage(image, currentLayout, newLayout))
    /\ UNCHANGED <<engineVars, dqVars, daVars, pbVars, scVars, dlVars, fcVars>>

NextTI ==
    \E image \in VkImages, currentLayout \in ImageLayouts, newLayout \in ImageLayouts :
        TITransitionImage(image, currentLayout, newLayout)

SpecTI == Init /\ [][NextTI]_vars

----------------------------------------------------------------------------
(* One VulkanSwapChain under init(), recreate() and cleanup()              *)

MaxRecreates == 3

SwapChainCall(op, handle, res) ==
    [op |-> op, handle |-> handle, destroyed |-> handle \in scDestroyed,
     res |-> res]

\* VulkanSwapChain::cleanup() const: every image view is destroyed, then the
\* swapchain; the method is const, so m_swapChain and m_imageViews keep
\* their values.
swapChainCleanup ==
    [i \in 1 .. Len(m_imageViews) |->
        [op |-> "vkDestroyImageView", handle |-> m_imageViews[i],
         destroyed |-> FALSE, res |-> "void"]]
      \o <<SwapChainCall("vkDestroySwapchainKHR", m_swapChain, "void")>>

\* The handles destroyed once vkDestroySwapchainKHR(device, swapChain) has
\* returned; destroying VK_NULL_HANDLE does nothing.
destroyedAfter(swapChain) ==
    IF swapChain = 0 THEN scDestroyed ELSE scDestroyed \cup {swapChain}

\* createSwapChain(): createInfo.oldSwapchain = m_swapChain, as the device
\* sees it when vkCreateSwapchainKHR is called with the handles in destroyed
\* already destroyed.
createSwapChain(destroyed, res) ==
    [op |-> "vkCreateSwapchainKHR", handle |-> m_swapChain,
     destroyed |-> m_swapChain \in destroyed, res |-> res]

\* createSwapChain(); createImageViews(): both calls are under VK_CHECK. On
\* success m_swapChain is the new handle and m_imageViews holds one view per
\* image of the new swapchain.
SCCreate(before, destroyed, imageCount, res, viewRes) ==
    /\ scDestroyed' = destroyed
    /\ IF ~VK_CHECK(res)
       THEN /\ scCalls' = scCalls \o before \o <<createSwapChain(destroyed, res)>>
            /\ scPc' = "aborted"
            /\ UNCHANGED <<m_swapChain, m_imageViews, scHandles>>
       ELSE /\ scCalls' = scCalls \o before \o
                            <<createSwapChain(destroyed, res),
                              [op |-> "vkCreateImageView", handle |-> scHandles + 1,
                               destroyed |-> FALSE, res |-> viewRes]>>
            /\ m_swapChain' = scHandles + 1
            /\ scHandles' = scHandles + 1
            /\ IF VK_CHECK(viewRes)
               THEN /\ m_imageViews' = [i \in 1 .. imageCount |-> <<scHandles + 1, i>>]
                    /\ scPc' = "ready"
               ELSE /\ m_imageViews' = [i \in 1 .. imageCount |-> <<0, i>>]
                    /\ scPc' = "aborted"
    /\ UNCHANGED <<engineVars, dqVars, daVars, pbVars, tiVars, dlVars, fcVars>>

\* VulkanSwapChain::init()
SCInit(imageCount, res, viewRes) ==
    /\ scPc = "new"
    /\ SCCreate(<<>>, scDestroyed, imageCount, res, viewRes)

\* VulkanSwapChain::recreate(): cleanup(); createSwapChain(); createImageViews()
SCRecreate(imageCount, res, viewRes) ==
    /\ scPc = "ready"
    /\ scHandles <= MaxRecreates
    /\ SCCreate(swapChainCleanup, destroyedAfter(m_swapChain), imageCount, res,
                viewRes)

\* VulkanSwapChain::cleanup(), called by the engine's cleanup()
SCCleanup ==
    /\ scPc = "ready"
    /\ scCalls' = scCalls \o swapChainCleanup
    /\ scDestroyed' = destroyedAfter(m_swapChain)
    /\ scPc' = "cleaned"
    /\ UNCHANGED <<m_swapChain, m_imageViews, scHandles>>
    /\ UNCHANGED <<engineVars, dqVars, daVars, pbVars, tiVars, dlVars, fcVars>>

NextSC ==
    \/ \E imageCount \in 1 .. NumImages, res \in ApiResults, viewRes \in ApiResults :
          SCInit(imageCount, res, viewRes)
    \/ \E imageCount \in 1 .. NumImages, res \in ApiResults, viewRes \in ApiResults :
          SCRecreate(imageCount, res, viewRes)
    \/ SCCleanup

SpecSC == Init /\ [][NextSC]_vars

----------------------------------------------------------------------------
(* One DescriptorLayoutBuilder under addBinding(), clear() and build()     *)

MaxBindings == 2

\* VkShaderStageFlags: a bit mask, held as the set of its bits, so that
\* a | b is the union.
ShaderStageBits == {"VK_SHADER_STAGE_VERTEX_BIT", "VK_SHADER_STAGE_COMPUTE_BIT"}
ShaderStageFlags == SUBSET ShaderStageBits \ {{}}
\* addBinding(binding, type): the members not named by the initializer,
\* stageFlags among them, are zero.
addBinding(binding, type) ==
    Append(bindings, [binding |-> binding, descriptorType |-> type,
                      descriptorCount |-> 1, stageFlags |-> {}])

\* for (auto &binding : bindings) binding.stageFlags |= shaderStages;
build_bindings(shaderStages) ==
    [i \in 1 .. Len(bindings) |->
        [bindings[i] EXCEPT !.stageFlags = @ \cup shaderStages]]

DLAddBinding(binding, type) ==
    /\ dlPc = "ready"
    /\ dlCalls < MaxBuilderCalls
    /\ dlCalls' = dlCalls + 1
    /\ bindings' = addBinding(binding, type)
    /\ UNCHANGED <<dlPc, dlLayouts>>
    /\ UNCHANGED <<engineVars, dqVars, daVars, pbVars, tiVars, scVars, fcVars>>

\* DescriptorLayoutBuilder::clear()
DLClear ==
    /\ dlPc = "ready"
    /\ dlCalls < MaxBuilderCalls
    /\ dlCalls' = dlCalls + 1
    /\ bindings' = <<>>
    /\ UNCHANGED <<dlPc, dlLayouts>>
    /\ UNCHANGED <<engineVars, dqVars, daVars, pbVars, tiVars, scVars, fcVars>>

\* build(device, shaderStages): the builder's own bindings are updated, then
\* handed to vkCreateDescriptorSetLayout under VK_CHECK.
DLBuild(shaderStages, res) ==
    /\ dlPc = "ready"
    /\ dlCalls < MaxBuilderCalls
    /\ dlCalls' = dlCalls + 1
    /\ bindings' = build_bindings(shaderStages)
    /\ dlLayouts' = Append(dlLayouts, [shaderStages |-> shaderStages,
                                       pBindings |-> build_bindings(shaderStages),
                                       res |-> res])
    /\ dlPc' = IF VK_CHECK(res) THEN "ready" ELSE "aborted"
    /\ UNCHANGED <<engineVars, dqVars, daVars, pbVars, tiVars, scVars, fcVars>>

NextDL ==
    \/ \E binding \in 0 .. (MaxBindings - 1), type \in DescriptorTypes :
          DLAddBinding(binding, type)
    \/ DLClear
    \/ \E shaderStages \in ShaderStageFlags, res \in ApiResults :
          DLBuild(shaderStages, res)

SpecDL == Init /\ [][NextDL]_vars

----------------------------------------------------------------------------
(* The frame counter as a 32-bit signed integer                            *)

MaxCounterWindow == 8

\* int m_frameNumber
INT_MAX == 2147483647
INT_MIN == -INT_MAX - 1

\* The values of the counter looked at: those next to 0 and next to the two
\* ends of the range of int.
FrameNumbers ==
    UNION {{k, INT_MAX - k, INT_MIN + k, -k} : k \in 0 .. MaxCounterWindow}

\* An unsigned int is held as its two 16-bit halves, value hi * 2^16 + lo.
Half == 2^16

\* The usual arithmetic conversions: FRAME_OVERLAP is an unsigned int, so the
\* int operand of % is converted to unsigned int (modulo 2^32) first.
ToUnsigned(n) == [hi |-> (n \div Half) % Half, lo |-> n % Half]

\* u % d for an unsigned int u and 0 < d < 2^16
UnsignedMod(u, d) == ((u.hi % d) * (Half % d) + (u.lo % d)) % d

\* What % would give on two ints: the remainder has the sign of the dividend.
frameIndex_signed(n) ==
    IF n < 0 /\ n % FRAME_OVERLAP # 0 THEN (n % FRAME_OVERLAP) - FRAME_OVERLAP
                                      ELSE n % FRAME_OVERLAP

\* m_frameNumber % FRAME_OVERLAP, the index getCurrentFrame() uses
frameIndex(n) == UnsignedMod(ToUnsigned(n), FRAME_OVERLAP)

\* The counter holds n when the frames looked at begin.
FCStart(n) ==
    /\ fcPc = "new"
    /\ fcFrameNumber' = n
    /\ fcPc' = "counting"
    /\ UNCHANGED fcSlots
    /\ UNCHANGED <<engineVars, dqVars, daVars, pbVars, tiVars, scVars, dlVars>>

\* One draw(): the frame uses m_frames[m_frameNumber % FRAME_OVERLAP], then
\* m_frameNumber++. At INT_MAX the increment overflows, which is undefined:
\* this disjunct is the build in which the addition wraps to INT_MIN.
FCDraw ==
    /\ fcPc = "counting"
    /\ Len(fcSlots) < MaxFrames
    /\ fcSlots' = Append(fcSlots, frameIndex(fcFrameNumber))
    /\ fcFrameNumber' = IF fcFrameNumber < INT_MAX THEN fcFrameNumber + 1
                                                   ELSE INT_MIN
    /\ UNCHANGED fcPc
    /\ UNCHANGED <<engineVars, dqVars, daVars, pbVars, tiVars, scVars, dlVars>>

\* The same draw() in a build that traps on signed overflow: the process ends
\* at the increment.
FCDrawTrap ==
    /\ fcPc = "counting"
    /\ Len(fcSlots) < MaxFrames
    /\ fcFrameNumber = INT_MAX
    /\ fcSlots' = Append(fcSlots, frameIndex(fcFrameNumber))
    /\ fcPc' = "trapped"
    /\ UNCHANGED fcFrameNumber
    /\ UNCHANGED <<engineVars, dqVars, daVars, pbVars, tiVars, scVars, dlVars>>

NextFC ==
    \/ \E n \in FrameNumbers : FCStart(n)
    \/ FCDraw
    \/ FCDrawTrap

SpecFC == Init /\ [][NextFC]_vars

----------------------------------------------------------------------------
(* Properties                                                              *)

Ops(t) == [i \in 1 .. Len(t) |-> t[i].op]
Reverse(q) == [i \in 1 .. Len(q) |-> q[Len(q) + 1 - i]]
Count(q, x) == Cardinality({i \in 1 .. Len(q) : q[i] = x})
IsPrefix(p, q) == Len(p) <= Len(q) /\ \A i \in 1 .. Len(p) : p[i] = q[i]

\* The wait on slot s's fence succeeded earlier in the draw() whose i-th call is given.
WaitedBefore(i, s) ==
    \E j \in 1 .. (i - 1) :
        /\ trace[j].op = "wait"
        /\ trace[j].slot = s
        /\ trace[j].res = "VK_SUCCESS"
        /\ trace[j].fence = "signaled"

\* C1: draw() resets and re-records a slot's command buffer only after the
\* wait on that slot's fence has found it signaled, and no batch submitted
\* with that slot is executing on the GPU at the reset or during recording.
C1_RecordOnlyWhenSlotIdle ==
    /\ \A i \in 1 .. Len(trace) :
          trace[i].op \in {"resetCmd", "record"} =>
              /\ trace[i].inFlight = 0
              /\ WaitedBefore(i, trace[i].slot)
    /\ pc \in {"draw_resetCmd", "draw_record", "draw_submit"} =>
          InFlight(getCurrentFrame) = 0

\* A slot is re-recorded for its second use while the other slot's batch executes.
C1_Witness ==
    /\ pc = "draw_submit"
    /\ m_frameNumber >= FRAME_OVERLAP
    /\ pending # {}
    /\ trace[Len(trace)].op = "record"

\* C2: a slot's deletion queue is flushed only while no batch of that slot
\* is outstanding: in draw() after the successful wait on the slot's fence
\* and before the draw()'s submission, in cleanup() after vkDeviceWaitIdle.
C2_FlushOnlyWhenSlotIdle ==
    \A i \in 1 .. Len(trace) :
        trace[i].op = "flush" =>
            /\ trace[i].inFlight = 0
            /\ \/ /\ WaitedBefore(i, trace[i].slot)
                  /\ \A j \in 1 .. (i - 1) : trace[j].op # "submit"
               \/ /\ trace[1].op = "waitIdle"
                  /\ trace[1].inFlight = 0

\* cleanup() has flushed every slot's queue after frames had been submitted.
C2_Witness ==
    /\ pc = "cleanup_frames"
    /\ frameIt = FRAME_OVERLAP
    /\ Len(slotLog) > FRAME_OVERLAP
    /\ \A s \in Slots : \E i \in 1 .. Len(trace) :
          trace[i].op = "flush" /\ trace[i].slot = s

\* C3: flush() calls the closures pushed since the last flush in exactly the
\* reverse of their push order.
C3_FlushReversesPushOrder ==
    [][DQFlush =>
          lastFlush' = Reverse(SubSeq(pushed, flushedUpTo + 1, Len(pushed)))]_vars

\* A, B, C were pushed and the flush called C, then B, then A.
C3_Witness ==
    lastFlush = <<[n |-> 3, fn |-> "C"], [n |-> 2, fn |-> "B"], [n |-> 1, fn |-> "A"]>>

\* C4: every pushed closure is called exactly once, by the first flush after
\* its push (none before it, and never again by a later flush).
C4_EachActionExactlyOnce ==
    \A k \in 1 .. Len(pushed) :
        Count(executed, pushed[k]) = IF k <= flushedUpTo THEN 1 ELSE 0

\* Two flushes have run closures and a third generation is still queued.
C4_Witness ==
    /\ Len(executed) >= 2
    /\ Len(lastFlush) >= 1
    /\ Len(lastFlush) < Len(executed)
    /\ flushedUpTo < Len(pushed)

\* C5: flush() leaves the queue empty, and on an empty queue it calls
\* nothing and leaves the queue empty.
C5_FlushEmptiesAndIsIdempotent ==
    [][DQFlush =>
          /\ deletors' = <<>>
          /\ deletors = <<>> =>
                (executed' = executed /\ lastFlush' = <<>> /\ deletors' = deletors)]_vars

\* A flush of the empty queue, after an earlier flush that ran closures.
C5_Witness ==
    /\ lastFlush = <<>>
    /\ executed # <<>>
    /\ deletors = <<>>
    /\ flushedUpTo = Len(pushed)

\* C6: m_mainDeletionQueue is flushed by neither run() nor draw(): only by
\* cleanup(), after vkDeviceWaitIdle and after every frame's queue was flushed.
C6_MainQueueFlushedOnlyInCleanup ==
    /\ \A i \in 1 .. Len(trace) :
          trace[i].op = "flushMain" =>
              /\ pc \in {"cleanup_device", "exited"}
              /\ trace[1].op = "waitIdle"
              /\ trace[1].inFlight = 0
              /\ trace[i].inFlight = 0
              /\ \A s \in Slots : \E j \in 1 .. (i - 1) :
                    trace[j].op = "flush" /\ trace[j].slot = s
    /\ pc \notin {"cleanup_device", "exited"} => released = <<>>
    /\ (m_isInitialized /\ pc \notin {"cleanup_device", "exited"}) =>
          mainDeletors # <<>>

\* cleanup() has flushed the global queue after frames were drawn.
C6_Witness ==
    /\ pc = "exited"
    /\ slotLog # <<>>
    /\ released # <<>>
    /\ mainDeletors = <<>>

\* C7: at most FRAME_OVERLAP submitted batches are uncompleted, and at most
\* one per slot.
C7_AtMostOneInFlightPerSlot ==
    /\ Cardinality(pending) <= FRAME_OVERLAP
    /\ \A s \in Slots : InFlight(s) <= 1

\* Every slot has a batch executing.
C7_Witness ==
    /\ Cardinality(pending) = FRAME_OVERLAP
    /\ \A s \in Slots : InFlight(s) = 1

\* C8: every fence is created signaled, so the wait of the first draw() on
\* each slot finds the fence signaled although no batch was ever submitted
\* with that slot: it needs no GPU completion and cannot time out.
C8_FirstWaitsDoNotBlock ==
    /\ (pc \in {"initDescriptors", "initBackgroundPipelines", "initTrianglePipeline",
                "initImGui"} \/ (pc = "run_top" /\ slotLog = <<>>)) =>
          \A s \in Slots : renderFence[s] = "signaled" /\ InFlight(s) = 0
    /\ (pc = "draw_wait" /\ m_frameNumber < FRAME_OVERLAP) =>
          /\ renderFence[getCurrentFrame] = "signaled"
          /\ \A k \in 1 .. Len(slotLog) : slotLog[k] # getCurrentFrame
    /\ \A i \in 1 .. Len(trace) :
          (trace[i].op = "wait" /\ trace[i].frame < FRAME_OVERLAP) =>
              trace[i].fence = "signaled" /\ trace[i].res # "VK_TIMEOUT"

\* The first wait on the last slot has returned while an earlier frame still executes.
C8_Witness ==
    /\ pc = "draw_flush"
    /\ m_frameNumber = FRAME_OVERLAP - 1
    /\ Cardinality(pending) = FRAME_OVERLAP - 1
    /\ trace[1].res = "VK_SUCCESS"

\* The steps of draw() the claim lists, in the order it lists them.
DrawSteps ==
    <<"wait", "flush", "acquire", "resetCmd", "record", "submit", "present",
      "increment">>

\* The listed steps among the calls of t.
ListedSteps(t) ==
    Ops(SelectSeq(t, LAMBDA c : c.op \in {DrawSteps[k] : k \in 1 .. Len(DrawSteps)}))

\* C9: the calls of a draw() follow the listed order, each on slot
\* m_frameNumber % FRAME_OVERLAP of the frame being drawn, and a draw() that
\* completes has made all of them.
C9_DrawStepOrder ==
    (trace # <<>> /\ trace[1].op = "wait") =>
        /\ IsPrefix(ListedSteps(trace), DrawSteps)
        /\ \A i \in 1 .. Len(trace) :
              /\ trace[i].slot = trace[i].frame % FRAME_OVERLAP
              /\ trace[i].frame = trace[1].frame
        /\ trace[Len(trace)].op = "increment" =>
              /\ ListedSteps(trace) = DrawSteps
              /\ m_frameNumber = trace[1].frame + 1
              /\ \A i \in 1 .. Len(trace) : trace[i].res \in {"VK_SUCCESS", "void"}

\* A draw() on a reused slot has completed.
C9_Witness ==
    /\ pc = "run_top"
    /\ trace # <<>>
    /\ trace[Len(trace)].op = "increment"
    /\ m_frameNumber = FRAME_OVERLAP + 1

\* C10: m_frameNumber starts at 0, only the last step of draw() changes it,
\* by exactly +1, and the k-th submitted frame (from 0) uses slot
\* k % FRAME_OVERLAP.
C10_FrameCounter ==
    /\ m_frameNumber = 0
    /\ [][/\ m_frameNumber' # m_frameNumber =>
                (pc = "draw_increment" /\ pc' = "run_top")
          /\ (pc = "draw_increment" /\ pc' = "run_top") =>
                m_frameNumber' = m_frameNumber + 1
          /\ m_frameNumber' >= m_frameNumber]_vars
    /\ [](/\ \A k \in 1 .. Len(slotLog) : slotLog[k] = (k - 1) % FRAME_OVERLAP
          /\ Len(slotLog) \in {m_frameNumber, m_frameNumber + 1}
          /\ Len(slotLog) = m_frameNumber + 1 =>
                pc \in {"draw_present", "draw_increment", "aborted"})

\* Several frames have completed and the counter equals their number.
C10_Witness ==
    /\ pc = "run_top"
    /\ m_frameNumber = FRAME_OVERLAP + 2
    /\ Len(slotLog) = m_frameNumber

\* The five-frame run of the claim has completed.
FiveFramesDone == m_frameNumber = 5 /\ pc = "run_top"

\* C11 (as stated): after 5 frames the slots used are 0,1,0,1,0 and exactly
\* the waits of frames 2 and 3 found a fence that was not yet signaled.
C11_ExactlyFrames2And3Block ==
    FiveFramesDone => (slotLog = <<0, 1, 0, 1, 0>> /\ blockedWaits = {2, 3})

\* C11 (amended): after 5 frames the slots used are 0,1,0,1,0; the waits of
\* frames 0 and 1 never find an unsignaled fence, and a wait that finds one
\* is the wait of a frame that reuses a slot (frames 2, 3, 4).
C11_OnlyReusesCanBlock ==
    /\ FiveFramesDone => slotLog = <<0, 1, 0, 1, 0>>
    /\ \A k \in blockedWaits :
          /\ k >= FRAME_OVERLAP
          /\ k - FRAME_OVERLAP + 1 <= Len(slotLog)
          /\ slotLog[k - FRAME_OVERLAP + 1] = k % FRAME_OVERLAP

\* Five frames are done and all three reuses of a slot found the fence unsignaled.
C11_Witness ==
    FiveFramesDone /\ blockedWaits = {2, 3, 4}

\* The successful call of the given kind made before the i-th call of the draw().
EarlierCall(i, op) ==
    CHOOSE j \in 1 .. (i - 1) : trace[j].op = op /\ trace[j].res = "VK_SUCCESS"

\* C12: the submission waits on the acquire semaphore of the same slot that
\* this frame's acquisition signals, signals that slot's release semaphore
\* and fence; the present waits on that release semaphore and presents the
\* image index this frame's acquisition returned.
C12_SemaphoreAndImagePairing ==
    \A i \in 1 .. Len(trace) :
        /\ trace[i].op = "submit" =>
              /\ \E j \in 1 .. (i - 1) : trace[j].op = "acquire"
              /\ trace[i].wait = trace[EarlierCall(i, "acquire")].signal
              /\ trace[i].wait = swapChainSemaphore(trace[i].frame % FRAME_OVERLAP)
              /\ trace[i].signal = renderSemaphore(trace[i].frame % FRAME_OVERLAP)
              /\ trace[i].slot = trace[i].frame % FRAME_OVERLAP
        /\ trace[i].op = "present" =>
              /\ \E j \in 1 .. (i - 1) : trace[j].op = "submit"
              /\ trace[i].wait = trace[EarlierCall(i, "submit")].signal
              /\ trace[i].image = trace[EarlierCall(i, "acquire")].image
              /\ \A b \in pending :
                    b.frame = trace[i].frame =>
                        b.image = trace[i].image /\ b.slot = trace[i].slot

\* A frame on slot 1 has been presented with the image its acquisition returned.
C12_Witness ==
    /\ pc = "draw_increment"
    /\ getCurrentFrame = 1
    /\ swapChainImageIndex = 1
    /\ trace[Len(trace)].op = "present"
    /\ trace[Len(trace)].image = 1

\* The results with which acquisition and presentation report a stale surface.
StaleResults == {"VK_ERROR_OUT_OF_DATE_KHR", "VK_SUBOPTIMAL_KHR"}

\* C13: when acquisition or presentation reports a stale or out-of-date
\* surface the process is not terminated (the frame loop continues).
C13_StaleSurfaceDoesNotTerminate ==
    \A i \in 1 .. Len(trace) :
        (trace[i].op \in {"acquire", "present"} /\ trace[i].res \in StaleResults)
            => pc # "aborted"

\* The positions of the control thread inside draw().
DrawPcs == {"draw_wait", "draw_flush", "draw_resetFence", "draw_acquire",
            "draw_resetCmd", "draw_record", "draw_submit", "draw_present",
            "draw_increment"}

\* C14: while m_stopRendering is set run() never calls draw(): the iteration
\* goes back to the loop condition with no call made and the frame counter
\* unchanged; only the RESTORED event clears the flag, and with the flag
\* clear the iteration calls draw().
C14_NoDrawWhileMinimized ==
    [][/\ pc' \in DrawPcs => ~m_stopRendering'
       /\ (pc = "run_check" /\ m_stopRendering) =>
             (pc' = "run_top" /\ UNCHANGED <<m_frameNumber, trace, slotLog, pending>>)
       /\ (pc = "run_check" /\ ~m_stopRendering) => pc' = "draw_wait"
       /\ (pc \notin DrawPcs /\ pc' \in DrawPcs) =>
             (pc = "run_check" /\ ~m_stopRendering /\ pc' = "draw_wait")
       /\ (m_stopRendering /\ ~m_stopRendering') => pc = "run_poll"
      ]_<<pc, m_stopRendering>>

\* draw() runs again after iterations were skipped while minimized: frames
\* were drawn before, the branch was taken, and a new draw() has been entered.
C14_Witness ==
    /\ skipped
    /\ pc = "draw_wait"
    /\ m_frameNumber >= 1
    /\ ~m_stopRendering

\* C15: a fence wait of draw() that does not succeed (timeout) terminates
\* the process: it is the last call made, with no retry and no flush,
\* acquire, record, submit or present after it.
C15_WaitTimeoutTerminates ==
    \A i \in 1 .. Len(trace) :
        (trace[i].op = "wait" /\ trace[i].res # "VK_SUCCESS")
            => (i = Len(trace) /\ pc = "aborted")

\* The wait of a frame that reuses a slot timed out and the process is terminated.
C15_Witness ==
    /\ pc = "aborted"
    /\ trace # <<>>
    /\ trace[Len(trace)].op = "wait"
    /\ trace[Len(trace)].res = "VK_TIMEOUT"
    /\ m_frameNumber >= FRAME_OVERLAP

\* C16: an image acquisition that times out terminates the process: it is
\* the last call made, with no retry and no record, submit or present after it.
C16_AcquireTimeoutTerminates ==
    \A i \in 1 .. Len(trace) :
        (trace[i].op = "acquire" /\ trace[i].res = "VK_TIMEOUT")
            => (i = Len(trace) /\ pc = "aborted")

\* An acquisition timed out after the wait, flush and fence reset of its frame.
C16_Witness ==
    /\ pc = "aborted"
    /\ Len(trace) = 4
    /\ trace[4].op = "acquire"
    /\ trace[4].res = "VK_TIMEOUT"

\* C17: every failure of a required device call during init() or a frame
\* terminates the process at once: the failed call is the last device call made.
C17_FailedDeviceCallIsLast ==
    /\ \A i \in 1 .. Len(initCalls) :
          initCalls[i].res \in ApiResults \ {"VK_SUCCESS"}
              => (i = Len(initCalls) /\ pc = "aborted")
    /\ \A i \in 1 .. Len(trace) :
          (trace[i].op = "submit" /\ trace[i].res # "VK_SUCCESS")
              => (i = Len(trace) /\ pc = "aborted")

\* C18: a frame is never cancelled midway: a draw() that has started leaves
\* only by terminating the process or by completing (the counter increment),
\* bQuit is not written inside draw(), and run() is left only at its loop
\* condition with bQuit set.
C18_NoMidFrameCancellation ==
    [][/\ pc \in DrawPcs =>
            /\ \/ pc' \in DrawPcs \cup {"aborted"}
               \/ (pc = "draw_increment" /\ pc' = "run_top"
                       /\ m_frameNumber' = m_frameNumber + 1)
            /\ bQuit' = bQuit
       /\ (pc' = "cleanup" /\ pc # "cleanup") => (pc = "run_top" /\ bQuit)
       /\ (pc = "run_top" /\ ~bQuit) => pc' = "run_poll"
      ]_<<pc, bQuit, m_frameNumber>>

\* The quit event has been handled and the frame of that iteration is still
\* being drawn.
C18_Witness ==
    /\ bQuit
    /\ pc = "draw_submit"
    /\ m_frameNumber >= 1

\* A pool that initPool created, with enough descriptors for maxSets sets of
\* any layout, and that has not been destroyed.
PoolWithEnoughDescriptors ==
    /\ daPc \in {"ready", "aborted"}
    /\ pool.valid
    /\ pool.descriptorCount >= pool.maxSets * MaxNeed

\* The number of allocate() calls since the last reset that returned a set.
SetsSinceReset ==
    Cardinality({i \in 1 .. Len(sinceReset) : sinceReset[i].res = "VK_SUCCESS"})

C21_PoolDestroyedOnlyWhenIdle ==
    [][Count(released', "destroyDescriptorPool") # Count(released, "destroyDescriptorPool") =>
          /\ Count(released, "destroyDescriptorPool") = 0
          /\ Count(released', "destroyDescriptorPool") = 1
          /\ pc = "cleanup_frames" /\ frameIt = FRAME_OVERLAP
          /\ pc' = "cleanup_device"
          /\ pending = {}
          /\ \E k \in 1 .. Len(trace) :
                trace[k].op = "waitIdle" /\ trace[k].inFlight = 0
      ]_released

\* The pool has been destroyed by cleanup() after frames that bind its set
\* were submitted.
C21_Witness ==
    /\ pc = "cleanup_device"
    /\ Count(released, "destroyDescriptorPool") = 1
    /\ Len(slotLog) >= FRAME_OVERLAP

\* C22 (as stated): initPool requests a pool with the given maxSets and one
\* size entry per ratio entry, in the same order and with the same type,
\* whose descriptorCount equals ratio * maxSets.
C22_DescriptorCountIsProduct ==
    daPc # "new" =>
        /\ pool.maxSets = pool.args.maxSets
        /\ Len(pool.poolSizes) = Len(pool.args.poolRatios)
        /\ \A i \in 1 .. Len(pool.poolSizes) :
              /\ pool.poolSizes[i].type = pool.args.poolRatios[i].type
              /\ 2 * pool.poolSizes[i].descriptorCount
                    = pool.args.poolRatios[i].halves * pool.args.maxSets

\* C22 (amended): as stated, but the descriptorCount is ratio * maxSets
\* truncated towards zero to a whole number.
C22_DescriptorCountIsTruncatedProduct ==
    daPc # "new" =>
        /\ pool.maxSets = pool.args.maxSets
        /\ Len(pool.poolSizes) = Len(pool.args.poolRatios)
        /\ \A i \in 1 .. Len(pool.poolSizes) :
              /\ pool.poolSizes[i].type = pool.args.poolRatios[i].type
              /\ 2 * pool.poolSizes[i].descriptorCount
                    <= pool.args.poolRatios[i].halves * pool.args.maxSets
              /\ 2 * pool.poolSizes[i].descriptorCount + 2
                    > pool.args.poolRatios[i].halves * pool.args.maxSets

\* A pool was requested from two ratio entries of different types, one of
\* them with a product that is not whole (1.5 * 3 = 4.5, requested as 4).
C22_Witness ==
    /\ daPc = "ready"
    /\ pool.valid
    /\ pool.args.maxSets = 3
    /\ Len(pool.args.poolRatios) = 2
    /\ pool.args.poolRatios[1] = [type |-> "VK_DESCRIPTOR_TYPE_UNIFORM_BUFFER", halves |-> 3]
    /\ pool.args.poolRatios[2] = [type |-> "VK_DESCRIPTOR_TYPE_STORAGE_IMAGE", halves |-> 2]
    /\ pool.poolSizes[1].descriptorCount = 4
    /\ pool.poolSizes[2].descriptorCount = 3

\* The fields of the builder.
BuilderFields ==
    {"m_shaderStages", "m_inputAssembly", "m_rasterizer", "m_colorBlendAttachment",
     "m_multisampling", "m_pipelineLayout", "m_depthStencil", "m_renderInfo",
     "m_colorAttachmentFormat"}

\* C23: after clear() every axis of the builder (shader stages, input
\* assembly, rasterizer, colour-blend attachment, multisampling, pipeline
\* layout, depth-stencil, render info and colour attachment format) has its
\* default value, whatever was called before.
C23_ClearResetsEveryAxis ==
    pbOp = "clear" =>
        /\ pbBuilder.m_shaderStages = <<>>
        /\ pbBuilder.m_inputAssembly = ZeroInputAssembly
        /\ pbBuilder.m_rasterizer = ZeroRasterizer
        /\ pbBuilder.m_colorBlendAttachment = ZeroColorBlendAttachment
        /\ pbBuilder.m_multisampling = ZeroMultisampling
        /\ pbBuilder.m_pipelineLayout = "VK_NULL_HANDLE"
        /\ pbBuilder.m_depthStencil = ZeroDepthStencil
        /\ pbBuilder.m_renderInfo = ZeroRenderInfo
        /\ pbBuilder.m_colorAttachmentFormat = "VK_FORMAT_UNDEFINED"

\* C24: buildPipeline() leaves the builder as it was, and of two
\* buildPipeline() calls with no call between them the second hands the
\* device the same configuration as the first and returns another pipeline.
C24_BuildLeavesBuilderUnchanged ==
    /\ pbOp = "buildPipeline" =>
          pbBuilder = pbBuilds[Len(pbBuilds)].builder
    /\ \A i \in 1 .. (Len(pbBuilds) - 1) :
          pbBuilds[i + 1].call = pbBuilds[i].call + 1 =>
              /\ pbBuilds[i + 1].pipelineInfo = pbBuilds[i].pipelineInfo
              /\ pbBuilds[i].res = "VK_SUCCESS"
              /\ pbBuilds[i + 1].res = "VK_SUCCESS" =>
                    pbBuilds[i + 1].newPipeline # pbBuilds[i].newPipeline
    /\ \A i \in 1 .. Len(pbBuilds) :
          pbBuilds[i].pipelineInfo = pipelineInfo(pbBuilds[i].builder)

\* A configured builder was built twice in a row and returned two pipelines.
C24_Witness ==
    /\ Len(pbBuilds) = 2
    /\ pbBuilds[2].call = pbBuilds[1].call + 1
    /\ pbBuilds[2].res = "VK_SUCCESS"
    /\ pbBuilds[1].newPipeline # pbBuilds[2].newPipeline
    /\ pbBuilder.m_shaderStages # <<>>
    /\ pbBuilder.m_colorBlendAttachment # ZeroColorBlendAttachment

\* The builders agree on every field but the given ones.
SameExcept(b1, b2, fields) == \A f \in BuilderFields \ fields : b1[f] = b2[f]

\* C25: each setter changes only the fields of its own axis and leaves every
\* other axis as it was; disableDepthTest yields depth test off, depth write
\* off and compare op NEVER.
C25_SettersTouchOnlyTheirAxis ==
    [][pbCalls' # pbCalls =>
        /\ pbOp' = "setShaders" => SameExcept(pbBuilder', pbBuilder, {"m_shaderStages"})
        /\ pbOp' = "setInputTopology" =>
              SameExcept(pbBuilder', pbBuilder, {"m_inputAssembly"})
        /\ pbOp' = "setPolygonMode" =>
              /\ SameExcept(pbBuilder', pbBuilder, {"m_rasterizer"})
              /\ pbBuilder'.m_rasterizer.cullMode = pbBuilder.m_rasterizer.cullMode
              /\ pbBuilder'.m_rasterizer.frontFace = pbBuilder.m_rasterizer.frontFace
        /\ pbOp' = "setCullMode" =>
              /\ SameExcept(pbBuilder', pbBuilder, {"m_rasterizer"})
              /\ pbBuilder'.m_rasterizer.polygonMode = pbBuilder.m_rasterizer.polygonMode
              /\ pbBuilder'.m_rasterizer.lineWidth = pbBuilder.m_rasterizer.lineWidth
        /\ pbOp' = "setMultiSamplingNone" =>
              SameExcept(pbBuilder', pbBuilder, {"m_multisampling"})
        /\ pbOp' = "disableBlending" =>
              SameExcept(pbBuilder', pbBuilder, {"m_colorBlendAttachment"})
        /\ pbOp' = "disableDepthTest" =>
              /\ SameExcept(pbBuilder', pbBuilder, {"m_depthStencil"})
              /\ pbBuilder'.m_depthStencil.depthTestEnable = "VK_FALSE"
              /\ pbBuilder'.m_depthStencil.depthWriteEnable = "VK_FALSE"
              /\ pbBuilder'.m_depthStencil.depthCompareOp = "VK_COMPARE_OP_NEVER"
        /\ pbOp' = "setColorAttachmentFormat" =>
              /\ SameExcept(pbBuilder', pbBuilder,
                            {"m_colorAttachmentFormat", "m_renderInfo"})
              /\ pbBuilder'.m_renderInfo.depthAttachmentFormat
                    = pbBuilder.m_renderInfo.depthAttachmentFormat
        /\ pbOp' = "setDepthFormat" =>
              /\ SameExcept(pbBuilder', pbBuilder, {"m_renderInfo"})
              /\ pbBuilder'.m_renderInfo.colorAttachmentCount
                    = pbBuilder.m_renderInfo.colorAttachmentCount
              /\ pbBuilder'.m_renderInfo.pColorAttachmentFormats
                    = pbBuilder.m_renderInfo.pColorAttachmentFormats
      ]_pbVars

\* disableDepthTest was called on a builder whose other axes had been set.
C25_Witness ==
    /\ pbOp = "disableDepthTest"
    /\ pbBuilder.m_shaderStages # <<>>
    /\ pbBuilder.m_rasterizer # ZeroRasterizer
    /\ pbBuilder.m_depthStencil.depthCompareOp = "VK_COMPARE_OP_NEVER"

\* The layout the image is in after the first k commands of a recording.
RECURSIVE LayoutAfter(_, _, _)
LayoutAfter(commands, k, image) ==
    IF k = 0 THEN "VK_IMAGE_LAYOUT_UNDEFINED"
    ELSE IF /\ commands[k].cmd = "vkCmdPipelineBarrier2"
            /\ commands[k].pImageMemoryBarriers[1].image = image
         THEN commands[k].pImageMemoryBarriers[1].newLayout
         ELSE LayoutAfter(commands, k - 1, image)

\* C26: in every recorded frame the transitions of each image form a chain
\* (each starts from the layout the previous one of that image ended in,
\* UNDEFINED for the first), every use of an image is in the layout last
\* transitioned to, and the recording ends with the acquired swapchain image
\* in the presentation-source layout.
C26_LayoutChainIsConsistent ==
    \A i \in 1 .. Len(trace) :
        (trace[i].op = "record" /\ trace[i].res = "VK_SUCCESS") =>
            LET commands == trace[i].commands
                acquired == SwapChainImage(trace[EarlierCall(i, "acquire")].image)
            IN /\ \A k \in 1 .. Len(commands) :
                     IF commands[k].cmd = "vkCmdPipelineBarrier2"
                     THEN commands[k].pImageMemoryBarriers[1].oldLayout
                             = LayoutAfter(commands, k - 1,
                                           commands[k].pImageMemoryBarriers[1].image)
                     ELSE commands[k].layout
                             = LayoutAfter(commands, k - 1, commands[k].image)
               /\ LayoutAfter(commands, Len(commands), acquired)
                     = "VK_IMAGE_LAYOUT_PRESENT_SRC_KHR"
               /\ \A k \in 1 .. Len(commands) :
                     (commands[k].cmd # "vkCmdPipelineBarrier2"
                         /\ commands[k].image # DrawImage)
                        => commands[k].image = acquired

\* A frame on swapchain image 1 has been recorded.
C26_Witness ==
    /\ pc = "draw_submit"
    /\ swapChainImageIndex = 1
    /\ trace[Len(trace)].op = "record"
    /\ Len(trace[Len(trace)].commands) = 11

\* C28: every transitionImage(cmd, image, from, to) call records exactly one
\* command holding exactly one image barrier, on that image, with oldLayout =
\* from and newLayout = to, whose source and destination stages are all
\* commands, and whose aspect is depth when 'to' is the depth-attachment layout
\* and colour otherwise, whatever 'from' is.
C28_OneBarrierPerTransition ==
    /\ Len(tiCmd) = Len(tiArgs)
    /\ \A k \in 1 .. Len(tiArgs) :
          /\ tiCmd[k].cmd = "vkCmdPipelineBarrier2"
          /\ tiCmd[k].imageMemoryBarrierCount = 1
          /\ Len(tiCmd[k].pImageMemoryBarriers) = 1
          /\ LET barrier == tiCmd[k].pImageMemoryBarriers[1]
             IN /\ barrier.image = tiArgs[k].image
                /\ barrier.oldLayout = tiArgs[k].currentLayout
                /\ barrier.newLayout = tiArgs[k].newLayout
                /\ barrier.srcStageMask = "VK_PIPELINE_STAGE_2_ALL_COMMANDS_BIT"
                /\ barrier.dstStageMask = "VK_PIPELINE_STAGE_2_ALL_COMMANDS_BIT"
                /\ barrier.aspectMask =
                      IF tiArgs[k].newLayout = "VK_IMAGE_LAYOUT_DEPTH_ATTACHMENT_OPTIMAL"
                      THEN "VK_IMAGE_ASPECT_DEPTH_BIT"
                      ELSE "VK_IMAGE_ASPECT_COLOR_BIT"

\* A transition out of the depth layout (colour aspect) followed by one into
\* it (depth aspect).
C28_Witness ==
    /\ Len(tiArgs) = 2
    /\ tiArgs[1].currentLayout = "VK_IMAGE_LAYOUT_DEPTH_ATTACHMENT_OPTIMAL"
    /\ tiArgs[1].newLayout = "VK_IMAGE_LAYOUT_GENERAL"
    /\ tiCmd[1].pImageMemoryBarriers[1].aspectMask = "VK_IMAGE_ASPECT_COLOR_BIT"
    /\ tiArgs[2].currentLayout = "VK_IMAGE_LAYOUT_UNDEFINED"
    /\ tiArgs[2].newLayout = "VK_IMAGE_LAYOUT_DEPTH_ATTACHMENT_OPTIMAL"
    /\ tiCmd[2].pImageMemoryBarriers[1].aspectMask = "VK_IMAGE_ASPECT_DEPTH_BIT"

\* The destroy calls a closure of the global queue makes when it runs, in
\* order; a closure the model does not look into stands for itself.
ClosureBody(name) ==
    IF name = "destroyDrawImage"
    THEN <<"vkDestroyImageView(drawImage)", "vmaDestroyImage(drawImage)">>
    ELSE <<name>>

RECURSIVE DestroyCalls(_)
\* The destroy calls made by the closures run so far, in order.
DestroyCalls(closures) ==
    IF closures = <<>> THEN <<>>
    ELSE ClosureBody(Head(closures)) \o DestroyCalls(Tail(closures))

\* The positions of a destroy call in a sequence of destroy calls.
Positions(calls, name) == {k \in 1 .. Len(calls) : calls[k] = name}

\* C27: at shutdown the draw image's view is destroyed before the draw image,
\* the draw image before the memory allocator, and every action of the global
\* queue has run before the swapchain and the context (device) are destroyed.
C27_DependentsDestroyedFirst ==
    LET calls == DestroyCalls(released)
        Before(a, b) == \A i \in Positions(calls, a), j \in Positions(calls, b) : i < j
    IN /\ Before("vkDestroyImageView(drawImage)", "vmaDestroyImage(drawImage)")
       /\ Before("vmaDestroyImage(drawImage)", "vmaDestroyAllocator")
       /\ (Positions(calls, "vmaDestroyAllocator") # {}
              => Positions(calls, "vmaDestroyImage(drawImage)") # {})
       /\ \A j \in 1 .. Len(trace) :
             trace[j].op \in {"destroySwapChain", "destroyContext"} =>
                /\ mainDeletors = <<>>
                /\ \E i \in 1 .. (j - 1) : trace[i].op = "flushMain"
                /\ Positions(calls, "vmaDestroyAllocator") # {}

\* cleanup() of an initialized engine has run to its end.
C27_Witness ==
    /\ pc = "exited"
    /\ \E j \in 1 .. Len(trace) : trace[j].op = "destroyContext"
    /\ Positions(DestroyCalls(released), "vkDestroyImageView(drawImage)") # {}
    /\ Positions(DestroyCalls(released), "vmaDestroyAllocator") # {}

\* The shader loads of init() and the pipeline-creation call that uses each.
ShaderLoads ==
    [call |-> {"loadShaderModule(gradient)", "loadShaderModule(sky)",
               "loadShaderModule(triangleFrag)", "loadShaderModule(triangleVertex)"}]

PipelineCreation(load) ==
    CASE load = "loadShaderModule(gradient)" -> "vkCreateComputePipelines(gradient)"
      [] load = "loadShaderModule(sky)" -> "vkCreateComputePipelines(sky)"
      [] OTHER -> "vkCreateGraphicsPipelines"

\* C29: a failed shader load does not terminate init(): the pipeline-creation
\* call that uses the shader is still made unless a checked call in between
\* failed, and when every checked call succeeds init() runs to its end.
C29_FailedShaderLoadContinues ==
    \A i \in 1 .. Len(initCalls) :
        (initCalls[i].call \in ShaderLoads.call /\ initCalls[i].res = "false") =>
            /\ i < Len(initCalls)
            /\ \/ \E j \in (i + 1) .. Len(initCalls) :
                     initCalls[j].call = PipelineCreation(initCalls[i].call)
               \/ /\ pc = "aborted"
                  /\ initCalls[Len(initCalls)].res \in ApiResults \ {"VK_SUCCESS"}
            /\ (\A j \in 1 .. Len(initCalls) : initCalls[j].res \in {"VK_SUCCESS", "true", "false"})
                  => (pc # "aborted" \/ m_isInitialized)

\* init() has completed although the gradient shader failed to load.
C29_Witness ==
    /\ m_isInitialized
    /\ pc = "run_top"
    /\ \E i \in 1 .. Len(initCalls) :
          /\ initCalls[i].call = "loadShaderModule(gradient)"
          /\ initCalls[i].res = "false"
    /\ \E j \in 1 .. Len(initCalls) :
          initCalls[j].call = "vkCreateComputePipelines(gradient)"

\* C30: no batch signals a slot's renderSemaphore (completes on the GPU)
\* while a present request of an earlier frame of that slot, which waits on
\* the same semaphore, is still queued.
C30_NoSignalBeforePresentConsumes ==
    [][\A b \in pending :
          b \notin pending' =>
             ~\E k \in 1 .. Len(presents) :
                 presents[k].slot = b.slot /\ presents[k].frame < b.frame]_vars

\* C31: when draw() passes a slot's swapChainSemaphore to a successful image
\* acquisition on a reuse of the slot, the previous use of the slot was
\* submitted (the submission that waits on the semaphore exists) and that
\* batch has completed, so the earlier signal has been consumed.
C31_AcquireSemaphoreFreeAtAcquire ==
    [][(pc = "draw_acquire" /\ pc' = "draw_resetCmd"
            /\ m_frameNumber >= FRAME_OVERLAP) =>
          /\ Len(slotLog) = m_frameNumber
          /\ slotLog[m_frameNumber - FRAME_OVERLAP + 1] = getCurrentFrame
          /\ \A b \in pending : b.slot # getCurrentFrame]_vars

\* An image has been acquired on a reused slot while the other slot's batch
\* is still executing.
C31_Witness ==
    /\ pc = "draw_resetCmd"
    /\ m_frameNumber >= FRAME_OVERLAP
    /\ \E b \in pending : b.slot # getCurrentFrame
    /\ trace[Len(trace)].op = "acquire"
    /\ trace[Len(trace)].signal = swapChainSemaphore(getCurrentFrame)

\* C32: every vkQueueSubmit2 of draw() is given a fence that is unsignaled and
\* that no pending batch will signal, and between two consecutive resets of a
\* slot's fence exactly one submission is made with it: a reset finds as many
\* submissions of the slot as earlier resets, a submission one fewer.
C32_OneSubmissionPerFenceReset ==
    [][/\ (pc = "draw_submit" /\ pc' = "draw_present") =>
             /\ renderFence[getCurrentFrame] = "unsignaled"
             /\ InFlight(getCurrentFrame) = 0
             /\ Count(slotLog, getCurrentFrame) = fenceResets[getCurrentFrame] - 1
       /\ (fenceResets' # fenceResets) =>
             Count(slotLog, getCurrentFrame) = fenceResets[getCurrentFrame]]_vars

\* A slot's fence has been reset for its second use and the second batch of
\* the slot has been submitted with it.
C32_Witness ==
    /\ pc = "draw_present"
    /\ fenceResets[getCurrentFrame] = 2
    /\ Count(slotLog, getCurrentFrame) = 2
    /\ renderFence[getCurrentFrame] = "unsignaled"

\* C33: while no call fails, the GPU completes every batch and every
\* acquisition succeeds in the end, every draw() that has been entered
\* returns: the wait on the slot's fence never blocks for ever.
C33_DrawCompletes ==
    (pc = "draw_wait") ~> (pc = "run_top")

\* draw() is blocked in the wait on the fence of a reused slot, which the
\* slot's pending batch will signal.
C33_Witness ==
    /\ pc = "draw_wait"
    /\ m_frameNumber >= FRAME_OVERLAP
    /\ renderFence[getCurrentFrame] = "unsignaled"
    /\ InFlight(getCurrentFrame) = 1

\* run() has returned: the caller is in cleanup() or past it.
Returned == pc \in {"cleanup", "cleanup_waitIdle", "cleanup_frames",
                    "cleanup_device", "exited"}

\* C34: once a quit event has been polled run() calls draw() at most one more
\* time, not at all when m_stopRendering is set at the check of that
\* iteration, and then returns (as long as the frame bound of the model lets
\* that last draw() be made).
C34_QuitEndsRun ==
    /\ [](drawsAfterQuit <= 1)
    /\ [][(bQuit /\ m_stopRendering /\ pc = "run_check" /\ pc' # pc) =>
             (pc' = "run_top" /\ drawsAfterQuit' = 0)]_vars
    /\ [][(bQuit /\ pc = "run_top" /\ pc' # pc) => Returned']_vars
    /\ (bQuit /\ m_frameNumber < MaxFrames) ~> Returned

\* run() has returned after one more draw() since the quit event.
C34_Witness ==
    /\ pc = "cleanup"
    /\ bQuit
    /\ drawsAfterQuit = 1

\* C35: cleanup() destroys the command pool, the fence and the semaphores of
\* each slot at most once over any sequence of calls: a cleanup() of an engine
\* whose init() never completed does nothing, and a cleanup() after a
\* completed one issues no device call (no vkDeviceWaitIdle, no vkDestroy*).
C35_CleanupDestroysOnce ==
    [][/\ (pc = "cleanup" /\ ~m_isInitialized /\ pc' # pc) =>
              (pc' = "exited" /\ trace' = <<>> /\ renderFence' = renderFence
                 /\ released' = released)
       /\ (pc = "cleanup_waitIdle" /\ pc' # pc) =>
              \A s \in Slots : renderFence[s] # "destroyed"
       /\ (pc = "cleanup_frames" /\ frameIt' = frameIt + 1) =>
              renderFence[frameIt] # "destroyed"]_vars

\* C36: recreate() never hands an already-destroyed swapchain handle to the
\* device: the oldSwapchain of every vkCreateSwapchainKHR call is
\* VK_NULL_HANDLE or a swapchain that has not been destroyed.
C36_OldSwapchainNotDestroyed ==
    \A i \in 1 .. Len(scCalls) :
        scCalls[i].op = "vkCreateSwapchainKHR" =>
            (scCalls[i].handle = 0 \/ ~scCalls[i].destroyed)

\* C37: every build(device, shaderStages) creates a layout in which the stage
\* flags of each binding equal exactly the stages passed to that call, also
\* when build() is called several times on the same builder with different
\* stages.
C37_LayoutStagesAreTheCallsStages ==
    \A i \in 1 .. Len(dlLayouts) :
        \A j \in 1 .. Len(dlLayouts[i].pBindings) :
            dlLayouts[i].pBindings[j].stageFlags = dlLayouts[i].shaderStages

\* C38: for every value the 32-bit signed frame counter takes, also after it
\* was incremented past 2^31 - 1, the slot index m_frameNumber % FRAME_OVERLAP
\* lies in 0 .. FRAME_OVERLAP - 1, and consecutive frames use different slots.
C38_SlotIndexInRangeAcrossOverflow ==
    /\ frameIndex(fcFrameNumber) \in Slots
    /\ \A i \in 1 .. Len(fcSlots) :
          /\ fcSlots[i] \in Slots
          /\ i > 1 => fcSlots[i] # fcSlots[i - 1]
    /\ (fcPc = "counting" /\ fcSlots # <<>>) =>
          frameIndex(fcFrameNumber) # fcSlots[Len(fcSlots)]

\* The counter started at INT_MAX - 1, was incremented past INT_MAX and a
\* frame has been drawn with the negative counter.
C38_Witness ==
    /\ fcPc = "counting"
    /\ fcFrameNumber = INT_MIN + 1
    /\ Len(fcSlots) = 3

====
